---------------------------- MODULE Spec2Model ----------------------------
(***************************************************************************)
(* Model of the hash tools of src/mcp/calculator/hash_calculator.py.       *)
(*                                                                         *)
(* A Python str is a sequence of code points, a bytes object a sequence of *)
(* integers 0..255.  A call that can raise returns a record                *)
(*   [ok |-> BOOLEAN, val |-> result, exc |-> exception class, msg |-> m]  *)
(* so that "raises" and "returns" are distinct, observable outcomes.       *)
(***************************************************************************)
EXTENDS Integers, Sequences, FiniteSets, TLC

(***************************************************************************)
(* Characters                                                              *)
(***************************************************************************)
\* Code points of the characters the inputs of the model are written with.
Ch ==
    [ tab |-> 9, lf |-> 10, cr |-> 13, sp |-> 32, quote |-> 34, plus |-> 43,
      comma |-> 44, minus |-> 45, slash |-> 47, d0 |-> 48, d1 |-> 49,
      d2 |-> 50, d3 |-> 51, d9 |-> 57, colon |-> 58, eq |-> 61, A |-> 65,
      B |-> 66, F |-> 70, Q |-> 81, Y |-> 89, Z |-> 90, lbrack |-> 91,
      bslash |-> 92, rbrack |-> 93, a |-> 97, b |-> 98, c |-> 99, d |-> 100,
      e |-> 101, f |-> 102, g |-> 103, m |-> 109, x |-> 120, z |-> 122,
      lbrace |-> 123, rbrace |-> 125, eacute |-> 233 ]

\* str.isspace() for one character, as str.strip() with no argument uses it.
IsSpace(c) == (c \in 9..13) \/ (c \in 28..32) \/ c = 133 \/ c = 160

IsDigit(c) == c \in 48..57

IsLowerHex(c) == IsDigit(c) \/ (c \in 97..102)

IsHexDigit(c) == IsLowerHex(c) \/ (c \in 65..70)

\* int(c, 16) of a hexadecimal digit
HexVal(c) ==
    IF IsDigit(c) THEN c - 48 ELSE IF c \in 97..102 THEN c - 87 ELSE c - 55

\* the lowercase hexadecimal digit of a value 0..15
HexChar(v) == IF v < 10 THEN 48 + v ELSE 87 + v

\* str.lower() on the characters of the model (ASCII letters and e-acute)
LowerChar(c) == IF c \in 65..90 THEN c + 32 ELSE c

lower(s) == [i \in 1..Len(s) |-> LowerChar(s[i])]

UpperChar(c) == IF c \in 97..122 THEN c - 32 ELSE c

upper(s) == [i \in 1..Len(s) |-> UpperChar(s[i])]

RECURSIVE lstrip(_)
lstrip(s) == IF s # <<>> /\ IsSpace(Head(s)) THEN lstrip(Tail(s)) ELSE s

RECURSIVE rstrip(_)
rstrip(s) ==
    IF s # <<>> /\ IsSpace(s[Len(s)])
    THEN rstrip(SubSeq(s, 1, Len(s) - 1))
    ELSE s

\* str.strip(): also what str_strip_whitespace=True applies to a str field
strip(s) == rstrip(lstrip(s))

(***************************************************************************)
(* Results of calls that may raise                                         *)
(***************************************************************************)
Ok(v) == [ok |-> TRUE, val |-> v, exc |-> "", msg |-> ""]

Raise(e, m) == [ok |-> FALSE, val |-> <<>>, exc |-> e, msg |-> m]

\* The classes an `except Exception` clause catches, among those raised here.
ExceptionClasses ==
    { "ValueError", "binascii.Error", "FileNotFoundError", "IsADirectoryError",
      "PermissionError", "AttributeError", "TypeError", "JSONDecodeError" }

\* issubclass(e, ValueError)
IsValueError(e) == e \in {"ValueError", "binascii.Error", "JSONDecodeError"}

(***************************************************************************)
(* str.encode('utf-8') and bytes.decode('utf-8', errors='ignore')          *)
(***************************************************************************)
EncodeChar(c) ==
    IF c < 128 THEN <<c>>
    ELSE IF c < 2048 THEN <<192 + (c \div 64), 128 + (c % 64)>>
    ELSE <<224 + (c \div 4096), 128 + ((c \div 64) % 64), 128 + (c % 64)>>

RECURSIVE encode_utf8(_)
encode_utf8(s) ==
    IF s = <<>> THEN <<>> ELSE EncodeChar(Head(s)) \o encode_utf8(Tail(s))

\* number of continuation bytes a lead byte announces (0 for an ASCII byte,
\* -1 for a byte that cannot start a sequence)
Continuations(b) ==
    IF b < 128 THEN 0
    ELSE IF b \in 194..223 THEN 1
    ELSE IF b \in 224..239 THEN 2
    ELSE IF b \in 240..244 THEN 3
    ELSE -1

\* the range the first continuation byte has to lie in
FirstContOk(lead, b) ==
    IF lead = 224 THEN b \in 160..191
    ELSE IF lead = 237 THEN b \in 128..159
    ELSE IF lead = 240 THEN b \in 144..191
    ELSE IF lead = 244 THEN b \in 128..143
    ELSE b \in 128..191

\* how many of the n continuation bytes after position 1 are well formed
RECURSIVE ValidConts(_, _, _)
ValidConts(bs, k, n) ==
    IF k > n \/ k + 1 > Len(bs) THEN 0
    ELSE IF (IF k = 1 THEN FirstContOk(bs[1], bs[2]) ELSE bs[k + 1] \in 128..191)
         THEN 1 + ValidConts(bs, k + 1, n)
         ELSE 0

LeadBits(b, n) == IF n = 1 THEN b - 192 ELSE IF n = 2 THEN b - 224 ELSE b - 240

RECURSIVE ContBits(_, _, _, _)
ContBits(bs, k, n, acc) ==
    IF k > n THEN acc ELSE ContBits(bs, k + 1, n, acc * 64 + (bs[k + 1] - 128))

\* errors='ignore': an ill-formed sequence (its maximal well-formed prefix) is
\* dropped and decoding resumes behind it
RECURSIVE decode_utf8_ignore(_)
decode_utf8_ignore(bs) ==
    IF bs = <<>> THEN <<>>
    ELSE LET n == Continuations(bs[1])
             v == IF n > 0 THEN ValidConts(bs, 1, n) ELSE 0
         IN  IF n = 0 THEN <<bs[1]>> \o decode_utf8_ignore(Tail(bs))
             ELSE IF n = -1 THEN decode_utf8_ignore(Tail(bs))
             ELSE IF v = n
                  THEN <<ContBits(bs, 1, n, LeadBits(bs[1], n))>>
                       \o decode_utf8_ignore(SubSeq(bs, n + 2, Len(bs)))
                  ELSE decode_utf8_ignore(SubSeq(bs, v + 2, Len(bs)))


(***************************************************************************)
(* bytes.fromhex and base64.b64decode                                      *)
(***************************************************************************)
\* Py_ISSPACE: the ASCII white space bytes.fromhex skips between two bytes
IsAsciiSpace(c) == (c \in 9..13) \/ c = 32

RECURSIVE SkipAsciiSpace(_)
SkipAsciiSpace(s) ==
    IF s # <<>> /\ IsAsciiSpace(Head(s)) THEN SkipAsciiSpace(Tail(s)) ELSE s

\* one more byte in front of the bytes decoded behind it
FromHexByte(byte, rest) == IF rest.ok THEN Ok(<<byte>> \o rest.val) ELSE rest

\* t starts with no white space
RECURSIVE FromHexAt(_)
FromHexAt(t) ==
    IF t = <<>> THEN Ok(<<>>)
    ELSE IF Len(t) < 2 \/ ~IsHexDigit(t[1]) \/ ~IsHexDigit(t[2])
    THEN Raise("ValueError", "non-hexadecimal number found in fromhex() arg")
    ELSE FromHexByte(16 * HexVal(t[1]) + HexVal(t[2]),
                     FromHexAt(SkipAsciiSpace(SubSeq(t, 3, Len(t)))))

\* bytes.fromhex(s): pairs of hexadecimal digits, white space allowed between
\* pairs only; str(e) is kept without the position it ends with
fromhex(s) == FromHexAt(SkipAsciiSpace(s))

\* table_a2b_base64: the value of a character of the base64 alphabet, 64 for
\* any other character
B64Val(c) ==
    IF c \in 65..90 THEN c - 65
    ELSE IF c \in 97..122 THEN c - 71
    ELSE IF c \in 48..57 THEN c + 4
    ELSE IF c = 43 THEN 62
    ELSE IF c = 47 THEN 63
    ELSE 64

\* binascii.a2b_base64(s, strict_mode=strict): the scan over s from position i
\* with the decoder's state (quad_pos, leftchar, pads, padding_started)
RECURSIVE A2bScan(_, _, _, _, _, _, _, _)
A2bScan(s, i, strict, quad, left, pads, started, out) ==
    IF i > Len(s)
    THEN IF quad = 0 THEN Ok(out)
         ELSE IF quad = 1
              THEN Raise("binascii.Error", "Invalid base64-encoded string")
              ELSE Raise("binascii.Error", "Incorrect padding")
    ELSE LET c == s[i]
             v == B64Val(c)
         IN  IF c = 61
             THEN IF quad >= 2 /\ quad + pads + 1 >= 4
                  THEN IF strict /\ i < Len(s)
                       THEN Raise("binascii.Error", "Excess data after padding")
                       ELSE Ok(out)
                  ELSE A2bScan(s, i + 1, strict, quad, left,
                               IF quad >= 2 THEN pads + 1 ELSE pads, TRUE, out)
             ELSE IF v >= 64
             THEN IF strict
                  THEN Raise("binascii.Error", "Only base64 data is allowed")
                  ELSE A2bScan(s, i + 1, strict, quad, left, pads, started, out)
             ELSE IF strict /\ started
             THEN Raise("binascii.Error", "Discontinuous padding not allowed")
             ELSE IF quad = 0
             THEN A2bScan(s, i + 1, strict, 1, v, 0, started, out)
             ELSE IF quad = 1
             THEN A2bScan(s, i + 1, strict, 2, v % 16, 0, started,
                          Append(out, left * 4 + (v \div 16)))
             ELSE IF quad = 2
             THEN A2bScan(s, i + 1, strict, 3, v % 4, 0, started,
                          Append(out, left * 16 + (v \div 4)))
             ELSE A2bScan(s, i + 1, strict, 0, 0, 0, started,
                          Append(out, left * 64 + v))

\* base64.b64decode(s, validate=strict) of a str
b64decode(s, strict) ==
    IF \E i \in 1..Len(s) : s[i] >= 128
    THEN Raise("ValueError", "string argument should contain only ASCII characters")
    ELSE IF strict /\ s # <<>> /\ s[1] = 61
    THEN Raise("binascii.Error", "Leading padding not allowed")
    ELSE A2bScan(s, 1, strict, 0, 0, 0, FALSE, <<>>)

(***************************************************************************)
(* Digests                                                                 *)
(***************************************************************************)
\* the exclusive or of two values below 2^n, bit by bit
RECURSIVE XorBits(_, _, _)
XorBits(a, b, n) ==
    IF n = 0 THEN 0
    ELSE ((a + b) % 2) + 2 * XorBits(a \div 2, b \div 2, n - 1)

XorNibble == [a \in 0..15 |-> [b \in 0..15 |-> XorBits(a, b, 4)]]

\* the exclusive or of two bytes, and of two 16-bit values
Xor8(a, b) == 16 * XorNibble[a \div 16][b \div 16] + XorNibble[a % 16][b % 16]

Xor16(a, b) == 256 * Xor8(a \div 256, b \div 256) + Xor8(a % 256, b % 256)

\* One bit of zlib's CRC-32 (reflected polynomial edb88320) on the register
\* kept as two 16-bit halves <<high, low>>.
CrcShift(r) ==
    LET hi == r[1] \div 2
        lo == (r[2] \div 2) + 32768 * (r[1] % 2)
    IN  IF r[2] % 2 = 1
        THEN <<Xor16(hi, 60856), Xor16(lo, 33568)>>
        ELSE <<hi, lo>>

RECURSIVE CrcBits(_, _)
CrcBits(r, n) == IF n = 0 THEN r ELSE CrcBits(CrcShift(r), n - 1)

\* zlib's table: the register a byte leaves after its eight bits
CrcTable == [b \in 0..255 |-> CrcBits(<<0, b>>, 8)]

\* the register after one more byte: (r >> 8) ^ table[(r ^ byte) & 0xff]
CrcLookup(r, t) ==
    <<Xor16(r[1] \div 256, t[1]),
      Xor16((r[2] \div 256) + 256 * (r[1] % 256), t[2])>>

CrcByte(r, byte) == CrcLookup(r, CrcTable[Xor8(r[2] % 256, byte)])

\* The register after the bytes of data: after its first half, then after its
\* second half.  The register between the halves is evaluated (the guard)
\* before the second half starts, which keeps the evaluation shallow.
RECURSIVE CrcBytes(_, _)

CrcSecondHalf(mid, data) == IF mid[1] >= 0 THEN CrcBytes(mid, data) ELSE mid

CrcBytes(r, data) ==
    IF data = <<>> THEN r
    ELSE IF Len(data) = 1 THEN CrcByte(r, data[1])
    ELSE CrcSecondHalf(CrcBytes(r, SubSeq(data, 1, Len(data) \div 2)),
                       SubSeq(data, (Len(data) \div 2) + 1, Len(data)))

\* zlib.crc32(data) & 0xffffffff, as its two 16-bit halves
CrcFinal(r) == <<Xor16(r[1], 65535), Xor16(r[2], 65535)>>

crc32(data) == CrcFinal(CrcBytes(<<65535, 65535>>, data))

\* format(v, "0<width>x") of a value below 16^width
RECURSIVE HexFixed(_, _)
HexFixed(v, width) ==
    IF width = 0 THEN <<>>
    ELSE Append(HexFixed(v \div 16, width - 1), HexChar(v % 16))

\* the digits of s behind its leading zeros, the last digit kept
RECURSIVE DropLeadingZeros(_)
DropLeadingZeros(s) ==
    IF Len(s) > 1 /\ Head(s) = 48 THEN DropLeadingZeros(Tail(s)) ELSE s

\* format(r, "x"): the register without the zero padding to eight digits
RegisterHexUnpadded(r) == DropLeadingZeros(HexFixed(r[1], 4) \o HexFixed(r[2], 4))

\* format(r, "08x") of a register kept as two halves
RegisterHex(r) == HexFixed(r[1], 4) \o HexFixed(r[2], 4)

\* the length of hexdigest() of each hashlib constructor
DigestWidth(algorithm) ==
    CASE algorithm = "md5" -> 32
      [] algorithm = "sha1" -> 40
      [] algorithm \in {"sha256", "sha3_256"} -> 64
      [] algorithm \in {"sha512", "sha3_512", "blake2b"} -> 128

\* what tells the hashlib constructors apart in the stand-in below
AlgorithmSalt(algorithm) ==
    CASE algorithm = "md5" -> 1
      [] algorithm = "sha1" -> 2
      [] algorithm = "sha256" -> 3
      [] algorithm = "sha512" -> 4
      [] algorithm = "sha3_256" -> 5
      [] algorithm = "sha3_512" -> 6
      [] algorithm = "blake2b" -> 7

\* hashlib's compression functions are library code: a digest is represented
\* by a deterministic word of the algorithm's width.  The CRC register is run
\* over the data and the algorithm's number; every block of 8 digits is the
\* register, run over one more byte for the next block.
RECURSIVE DigestBlocks(_, _)
DigestBlocks(r, k) ==
    IF k = 0 THEN <<>> ELSE RegisterHex(r) \o DigestBlocks(CrcByte(r, k), k - 1)

hexdigest(algorithm, data) ==
    DigestBlocks(CrcByte(CrcBytes(<<65535, 65535>>, data), AlgorithmSalt(algorithm)),
                 DigestWidth(algorithm) \div 8)

(***************************************************************************)
(* Normalization                                                           *)
(***************************************************************************)
\* re.sub(r'\r\n', '\n', s): the pattern without its second alternative, so
\* that a carriage return on its own stays
RECURSIVE SubCrLfOnly(_)
SubCrLfOnly(s) ==
    IF s = <<>> THEN <<>>
    ELSE IF Head(s) = 13 /\ Len(s) >= 2 /\ s[2] = 10
         THEN <<10>> \o SubCrLfOnly(SubSeq(s, 3, Len(s)))
         ELSE <<Head(s)>> \o SubCrLfOnly(Tail(s))

\* re.sub(r'\r\n|\r', '\n', s)
RECURSIVE SubLineEndings(_)
SubLineEndings(s) ==
    IF s = <<>> THEN <<>>
    ELSE IF Head(s) = 13
         THEN IF Len(s) >= 2 /\ s[2] = 10
              THEN <<10>> \o SubLineEndings(SubSeq(s, 3, Len(s)))
              ELSE <<10>> \o SubLineEndings(Tail(s))
         ELSE <<Head(s)>> \o SubLineEndings(Tail(s))

\* the length of the run of character c that s starts with
RECURSIVE RunLength(_, _)
RunLength(s, c) ==
    IF s # <<>> /\ Head(s) = c THEN 1 + RunLength(Tail(s), c) ELSE 0

\* re.sub('c{least,}', 'c' * keep, s): every maximal run of at least `least`
\* characters c becomes `keep` of them
RECURSIVE SubRuns(_, _, _, _)
SubRuns(s, c, least, keep) ==
    IF s = <<>> THEN <<>>
    ELSE LET n == RunLength(s, c)
         IN  IF n >= least
             THEN [i \in 1..keep |-> c] \o SubRuns(SubSeq(s, n + 1, Len(s)), c, least, keep)
             ELSE IF n > 0
             THEN SubSeq(s, 1, n) \o SubRuns(SubSeq(s, n + 1, Len(s)), c, least, keep)
             ELSE <<Head(s)>> \o SubRuns(Tail(s), c, least, keep)

\* the str normalize_text has built when it encodes it
normalize_text_str(data) ==
    SubRuns(SubRuns(SubLineEndings(strip(data)), 10, 3, 2), 32, 2, 1)

normalize_text(data) == encode_utf8(normalize_text_str(data))

(***************************************************************************)
(* json.loads and json.dumps(sort_keys=True, separators=(',', ':'))        *)
(*                                                                         *)
(* A parsed value is a record tagged by t: "null", "true", "false", "NaN", *)
(* "Infinity", "-Infinity", "int" (n), "str" (s), "array" (kids) and       *)
(* "object" (kids: the dict's items <<key, value>> in insertion order).    *)
(* Float literals (a fraction or an exponent behind the digits) and        *)
(* surrogate pairs are not modelled; the inputs of the model have none.    *)
(***************************************************************************)
JsonAtom(tag) == [t |-> tag]

JsonInt(v) == [t |-> "int", n |-> v]

JsonStr(str) == [t |-> "str", s |-> str]

JsonArray(items) == [t |-> "array", kids |-> items]

JsonObject(items) == [t |-> "object", kids |-> items]

\* a parse step: the value and the index behind it, or a JSONDecodeError
Parsed(v, next) == [ok |-> TRUE, val |-> v, pos |-> next]

ParseError == [ok |-> FALSE, val |-> JsonAtom("null"), pos |-> 0]

\* json.decoder.WHITESPACE: [ \t\n\r]*
IsJsonSpace(c) == c \in {32, 9, 10, 13}

RECURSIVE SkipWs(_, _)
SkipWs(s, i) ==
    IF i <= Len(s) /\ IsJsonSpace(s[i]) THEN SkipWs(s, i + 1) ELSE i

\* s[i:i+len(word)] == word
StartsWithAt(s, i, word) ==
    /\ i + Len(word) - 1 <= Len(s)
    /\ SubSeq(s, i, i + Len(word) - 1) = word

\* the character a backslash escape stands for, -1 when there is none
Unescape(c) ==
    CASE c = 34 -> 34
      [] c = 92 -> 92
      [] c = 47 -> 47
      [] c = 98 -> 8
      [] c = 102 -> 12
      [] c = 110 -> 10
      [] c = 114 -> 13
      [] c = 116 -> 9
      [] OTHER -> -1

\* STRINGCHUNK: the end of the run of plain characters that starts at i, the
\* index of the quote, backslash or control character that ends it
ChunkEnd(s, i) ==
    CHOOSE e \in i..(Len(s) + 1) :
        /\ e = Len(s) + 1 \/ s[e] \in {34, 92} \/ s[e] < 32
        /\ \A k \in i..(e - 1) : s[k] \notin {34, 92} /\ s[k] >= 32

\* py_scanstring(s, i, strict=True): the str literal whose opening quote is
\* just before i
RECURSIVE ParseString(_, _, _)
ParseString(s, i, acc) ==
    IF i > Len(s) THEN ParseError
    ELSE IF s[i] = 34 THEN Parsed(JsonStr(acc), i + 1)
    ELSE IF s[i] = 92
         THEN IF i + 1 > Len(s) THEN ParseError
              ELSE IF s[i + 1] = 117
                   THEN IF i + 5 <= Len(s)
                           /\ \A k \in (i + 2)..(i + 5) : IsHexDigit(s[k])
                        THEN ParseString(s, i + 6,
                                 Append(acc, 4096 * HexVal(s[i + 2])
                                             + 256 * HexVal(s[i + 3])
                                             + 16 * HexVal(s[i + 4])
                                             + HexVal(s[i + 5])))
                        ELSE ParseError
                   ELSE IF Unescape(s[i + 1]) = -1 THEN ParseError
                        ELSE ParseString(s, i + 2, Append(acc, Unescape(s[i + 1])))
    ELSE IF s[i] < 32 THEN ParseError
    ELSE ParseString(s, ChunkEnd(s, i), acc \o SubSeq(s, i, ChunkEnd(s, i) - 1))

\* the end of the digits that start at i
RECURSIVE DigitsEnd(_, _)
DigitsEnd(s, i) == IF i <= Len(s) /\ IsDigit(s[i]) THEN DigitsEnd(s, i + 1) ELSE i

\* int() of the digits s[i..j-1]
RECURSIVE DigitsValue(_, _, _)
DigitsValue(s, i, j) ==
    IF i >= j THEN 0 ELSE 10 * DigitsValue(s, i, j - 1) + (s[j - 1] - 48)

\* NUMBER_RE, integer part: -?(0|[1-9][0-9]*)
ParseNumber(s, i) ==
    LET neg == s[i] = 45
        j == IF neg THEN i + 1 ELSE i
    IN  IF j > Len(s) \/ ~IsDigit(s[j])
        THEN IF StartsWithAt(s, i, <<45, 73, 110, 102, 105, 110, 105, 116, 121>>)
             THEN Parsed(JsonAtom("-Infinity"), i + 9)
             ELSE ParseError
        ELSE LET e == IF s[j] = 48 THEN j + 1 ELSE DigitsEnd(s, j)
                 v == DigitsValue(s, j, e)
             IN  Parsed(JsonInt(IF neg THEN 0 - v ELSE v), e)

\* pairs -> dict: a repeated key keeps its first place and takes the last value
DictSet(items, key, v) ==
    IF \E i \in 1..Len(items) : items[i][1] = key
    THEN [i \in 1..Len(items) |->
            IF items[i][1] = key THEN <<key, v>> ELSE items[i]]
    ELSE Append(items, <<key, v>>)

RECURSIVE ParseValue(_, _)
RECURSIVE ParseMembers(_, _, _)
RECURSIVE ParseElements(_, _, _)

\* scan_once(s, i)
ParseValue(s, i) ==
    IF i > Len(s) THEN ParseError
    ELSE IF s[i] = 34 THEN ParseString(s, i + 1, <<>>)
    ELSE IF s[i] = 123 THEN ParseMembers(s, SkipWs(s, i + 1), <<>>)
    ELSE IF s[i] = 91 THEN ParseElements(s, SkipWs(s, i + 1), <<>>)
    ELSE IF StartsWithAt(s, i, <<110, 117, 108, 108>>)
    THEN Parsed(JsonAtom("null"), i + 4)
    ELSE IF StartsWithAt(s, i, <<116, 114, 117, 101>>)
    THEN Parsed(JsonAtom("true"), i + 4)
    ELSE IF StartsWithAt(s, i, <<102, 97, 108, 115, 101>>)
    THEN Parsed(JsonAtom("false"), i + 5)
    ELSE IF s[i] = 45 \/ IsDigit(s[i]) THEN ParseNumber(s, i)
    ELSE IF StartsWithAt(s, i, <<78, 97, 78>>)
    THEN Parsed(JsonAtom("NaN"), i + 3)
    ELSE IF StartsWithAt(s, i, <<73, 110, 102, 105, 110, 105, 116, 121>>)
    THEN Parsed(JsonAtom("Infinity"), i + 8)
    ELSE ParseError

\* JSONObject behind a member's value v: at d, a comma or the closing brace
MemberEnd(s, acc, key, v, d) ==
    IF d > Len(s) THEN ParseError
    ELSE IF s[d] = 125 THEN Parsed(JsonObject(DictSet(acc, key, v)), d + 1)
    ELSE IF s[d] = 44
    THEN IF SkipWs(s, d + 1) <= Len(s) /\ s[SkipWs(s, d + 1)] = 34
         THEN ParseMembers(s, SkipWs(s, d + 1), DictSet(acc, key, v))
         ELSE ParseError
    ELSE ParseError

MemberValue(s, acc, key, v) ==
    IF ~v.ok THEN ParseError ELSE MemberEnd(s, acc, key, v.val, SkipWs(s, v.pos))

\* JSONObject behind a property name: at c, the colon
MemberColon(s, acc, key, c) ==
    IF c > Len(s) \/ s[c] # 58 THEN ParseError
    ELSE MemberValue(s, acc, key, ParseValue(s, SkipWs(s, c + 1)))

MemberKey(s, acc, key) ==
    IF ~key.ok THEN ParseError
    ELSE MemberColon(s, acc, key.val.s, SkipWs(s, key.pos))

\* JSONObject: at j, the closing brace of an empty object or a property name
ParseMembers(s, j, acc) ==
    IF j <= Len(s) /\ s[j] = 125 /\ acc = <<>> THEN Parsed(JsonObject(<<>>), j + 1)
    ELSE IF j > Len(s) \/ s[j] # 34 THEN ParseError
    ELSE MemberKey(s, acc, ParseString(s, j + 1, <<>>))

\* JSONArray behind an element v: at d, a comma or the closing bracket
ElementEnd(s, acc, v, d) ==
    IF d > Len(s) THEN ParseError
    ELSE IF s[d] = 93 THEN Parsed(JsonArray(Append(acc, v)), d + 1)
    ELSE IF s[d] = 44 THEN ParseElements(s, SkipWs(s, d + 1), Append(acc, v))
    ELSE ParseError

ElementValue(s, acc, v) ==
    IF ~v.ok THEN ParseError ELSE ElementEnd(s, acc, v.val, SkipWs(s, v.pos))

\* JSONArray: at j, the closing bracket of an empty array or an element
ParseElements(s, j, acc) ==
    IF j <= Len(s) /\ s[j] = 93 /\ acc = <<>> THEN Parsed(JsonArray(<<>>), j + 1)
    ELSE ElementValue(s, acc, ParseValue(s, j))

\* the value is the whole text when only white space follows it
WholeText(s, v) ==
    IF v.ok /\ SkipWs(s, v.pos) > Len(s)
    THEN Ok(v.val)
    ELSE Raise("JSONDecodeError", "Expecting value")

\* json.loads(s): one value between optional white space, nothing behind it
json_loads(s) == WholeText(s, ParseValue(s, SkipWs(s, 1)))

\* str(n) of an int
RECURSIVE NatRepr(_)
NatRepr(n) == IF n < 10 THEN <<48 + n>> ELSE Append(NatRepr(n \div 10), 48 + (n % 10))

IntRepr(n) == IF n < 0 THEN <<45>> \o NatRepr(0 - n) ELSE NatRepr(n)

\* ESCAPE_ASCII with ensure_ascii=True: one character of a str
EscapeChar(c) ==
    CASE c = 34 -> <<92, 34>>
      [] c = 92 -> <<92, 92>>
      [] c = 10 -> <<92, 110>>
      [] c = 13 -> <<92, 114>>
      [] c = 9 -> <<92, 116>>
      [] c = 8 -> <<92, 98>>
      [] c = 12 -> <<92, 102>>
      [] OTHER -> IF c \in 32..126 THEN <<c>> ELSE <<92, 117>> \o HexFixed(c, 4)

RECURSIVE EscapeChars(_)
EscapeChars(s) ==
    IF s = <<>> THEN <<>>
    ELSE IF Len(s) = 1 THEN EscapeChar(s[1])
    ELSE EscapeChars(SubSeq(s, 1, Len(s) \div 2))
         \o EscapeChars(SubSeq(s, Len(s) \div 2 + 1, Len(s)))

\* a < b for two str
RECURSIVE StrLess(_, _)
StrLess(a, b) ==
    IF b = <<>> THEN FALSE
    ELSE IF a = <<>> THEN TRUE
    ELSE IF Head(a) # Head(b) THEN Head(a) < Head(b)
    ELSE StrLess(Tail(a), Tail(b))

\* sorted(dict.items()): the keys of a dict are pairwise different
RECURSIVE SortItems(_)
SortItems(items) ==
    IF items = <<>> THEN <<>>
    ELSE LET least == CHOOSE i \in 1..Len(items) :
                          \A k \in 1..Len(items) :
                              k = i \/ StrLess(items[i][1], items[k][1])
         IN  <<items[least]>>
             \o SortItems([k \in 1..(Len(items) - 1) |->
                              IF k < least THEN items[k] ELSE items[k + 1]])

\* json.dumps without sort_keys: the items in the dict's insertion order
ItemsUnsorted(items) == items

\* the dict's items in the order json.dumps(sort_keys=True) writes them

DumpOrder(items) == SortItems(items)

RECURSIVE json_dumps(_)
RECURSIVE DumpItems(_)
RECURSIVE DumpElements(_)

\* json.dumps(v, sort_keys=True, separators=(',', ':'))
json_dumps(v) ==
    CASE v.t = "int" -> IntRepr(v.n)
      [] v.t = "str" -> <<34>> \o EscapeChars(v.s) \o <<34>>
      [] v.t = "array" -> <<91>> \o DumpElements(v.kids) \o <<93>>
      [] v.t = "object" -> <<123>> \o DumpItems(DumpOrder(v.kids)) \o <<125>>
      [] v.t = "null" -> <<110, 117, 108, 108>>
      [] v.t = "true" -> <<116, 114, 117, 101>>
      [] v.t = "false" -> <<102, 97, 108, 115, 101>>
      [] v.t = "NaN" -> <<78, 97, 78>>
      [] v.t = "Infinity" -> <<73, 110, 102, 105, 110, 105, 116, 121>>
      [] v.t = "-Infinity" -> <<45, 73, 110, 102, 105, 110, 105, 116, 121>>

DumpItems(items) ==
    IF items = <<>> THEN <<>>
    ELSE <<34>> \o EscapeChars(items[1][1]) \o <<34, 58>> \o json_dumps(items[1][2])
         \o (IF Len(items) > 1 THEN <<44>> \o DumpItems(Tail(items)) ELSE <<>>)

DumpElements(items) ==
    IF items = <<>> THEN <<>>
    ELSE json_dumps(items[1])
         \o (IF Len(items) > 1 THEN <<44>> \o DumpElements(Tail(items)) ELSE <<>>)

\* the try block of normalize_json after json.loads
DumpParsed(parsed) ==
    IF parsed.ok
    THEN Ok(encode_utf8(json_dumps(parsed.val)))
    ELSE Raise("ValueError", "Invalid JSON data")

\* normalize_json(data): the canonical text in UTF-8, ValueError when data is
\* no JSON text
normalize_json(data) == DumpParsed(json_loads(data))

(***************************************************************************)
(* The enumerations and the files of the working directory                 *)
(***************************************************************************)
HashAlgorithm ==
    {"md5", "sha1", "sha256", "sha512", "sha3_256", "sha3_512", "blake2b", "crc32"}

InputType == {"text", "file", "base64", "hex"}

NormalizationType == {"none", "json", "text"}

ResponseFormat == {"markdown", "json"}

\* The paths that exist: f is a regular file, g a regular file the process
\* may not read, d a directory.  Any other path does not exist.
FileSystem ==
    [ f |-> [kind |-> "file", readable |-> TRUE, data |-> <<104, 105, 10>>],
      g |-> [kind |-> "file", readable |-> FALSE, data |-> <<120>>],
      d |-> [kind |-> "dir", readable |-> TRUE, data |-> <<>>] ]

PathEntry(path) ==
    IF path = <<Ch.f>> THEN FileSystem.f
    ELSE IF path = <<Ch.g>> THEN FileSystem.g
    ELSE IF path = <<Ch.d>> THEN FileSystem.d
    ELSE [kind |-> "missing", readable |-> FALSE, data |-> <<>>]

\* os.path.exists(path)
path_exists(path) == PathEntry(path).kind # "missing"

\* os.path.isfile(path)
path_isfile(path) == PathEntry(path).kind = "file"

\* os.path.getsize(path) of an existing path
path_getsize(path) == Len(PathEntry(path).data)

\* open(path, 'rb').read()
read_file(path) ==
    LET e == PathEntry(path)
    IN  IF e.kind = "missing"
        THEN Raise("FileNotFoundError", "[Errno 2] No such file or directory")
        ELSE IF e.kind = "dir"
        THEN Raise("IsADirectoryError", "[Errno 21] Is a directory")
        ELSE IF ~e.readable
        THEN Raise("PermissionError", "[Errno 13] Permission denied")
        ELSE Ok(e.data)

(***************************************************************************)
(* Input validation: the pydantic models                                   *)
(***************************************************************************)
\* re.match('^[0-9a-fA-F]+$', v), or '^[0-9a-f]+$' with lower_only: $ also
\* matches before a final newline
MatchesHexLine(v, lower_only) ==
    LET body == IF v # <<>> /\ v[Len(v)] = 10 THEN SubSeq(v, 1, Len(v) - 1) ELSE v
        InClass(c) == IF lower_only THEN IsLowerHex(c) ELSE IsHexDigit(c)
    IN  \/ (v # <<>> /\ \A i \in 1..Len(v) : InClass(v[i]))
        \/ (body # <<>> /\ \A i \in 1..Len(body) : InClass(body[i]))

\* HashCalculationInput.validate_input_data(v, info): v is the stripped
\* field; input_type is "" when that field did not validate
validate_input_data(v, input_type) ==
    IF input_type = "file"
    THEN IF ~path_exists(v) THEN Raise("ValueError", "File not found")
         ELSE IF ~path_isfile(v) THEN Raise("ValueError", "Path is not a file")
         ELSE Ok(v)
    ELSE IF input_type = "base64"
    THEN IF b64decode(v, TRUE).ok THEN Ok(v)
         ELSE Raise("ValueError", "Invalid base64 encoded data")
    ELSE IF input_type = "hex"
    THEN IF MatchesHexLine(v, FALSE) THEN Ok(v)
         ELSE Raise("ValueError", "Invalid hex encoded data")
    ELSE Ok(v)

\* HashComparisonInput.validate_expected_hash(v)
validate_expected_hash(v) ==
    IF MatchesHexLine(lower(strip(v)), TRUE) THEN Ok(lower(strip(v)))
    ELSE Raise("ValueError", "Expected hash must be a hexadecimal string")

\* the enumeration fields of both models
EnumsValid(raw) ==
    /\ raw.algorithm \in HashAlgorithm
    /\ raw.input_type \in InputType
    /\ raw.normalization \in NormalizationType
    /\ raw.response_format \in ResponseFormat

\* HashCalculationInput(**raw): the model, or pydantic's ValidationError
CalculationModel(raw, checked) ==
    IF EnumsValid(raw) /\ checked.ok
    THEN Ok([raw EXCEPT !.input_data = checked.val, !.expected_hash = <<>>])
    ELSE Raise("ValidationError",
               IF checked.ok THEN "Input should be a member of the enumeration"
               ELSE checked.msg)

HashCalculationInput(raw) ==
    CalculationModel(raw,
        validate_input_data(strip(raw.input_data),
            IF raw.input_type \in InputType THEN raw.input_type ELSE ""))

\* HashComparisonInput(**raw): input_data is stripped and not validated
ComparisonModel(raw, expected) ==
    IF EnumsValid(raw) /\ expected.ok
    THEN Ok([raw EXCEPT !.input_data = strip(raw.input_data),
                        !.expected_hash = expected.val])
    ELSE Raise("ValidationError",
               IF expected.ok THEN "Input should be a member of the enumeration"
               ELSE expected.msg)

HashComparisonInput(raw) ==
    ComparisonModel(raw, validate_expected_hash(strip(raw.expected_hash)))

(***************************************************************************)
(* The hash pipeline                                                       *)
(***************************************************************************)
\* normalize_data(data, normalization)
normalize_data(data, normalization) ==
    IF normalization = "none" THEN Ok(data)
    ELSE IF normalization = "json" THEN normalize_json(decode_utf8_ignore(data))
    ELSE IF normalization = "text" THEN Ok(normalize_text(decode_utf8_ignore(data)))
    ELSE Ok(data)

\* calculate_hash(data, algorithm)
calculate_hash(data, algorithm) ==
    IF algorithm = "crc32"
    THEN Ok(RegisterHex(crc32(data)))
    ELSE IF algorithm \in HashAlgorithm THEN Ok(hexdigest(algorithm, data))
    ELSE Raise("ValueError", "Unsupported algorithm")

\* get_input_data(input_type, input_data)
get_input_data(input_type, input_data) ==
    IF input_type = "text" THEN Ok(encode_utf8(input_data))
    ELSE IF input_type = "file" THEN read_file(input_data)
    ELSE IF input_type = "base64" THEN b64decode(input_data, FALSE)
    ELSE IF input_type = "hex" THEN fromhex(input_data)
    ELSE Raise("ValueError", "Unsupported input type")

\* What the three statements "get the input, normalize it, hash it" leave:
\* the bytes, the normalized bytes and the digest, or the exception of the
\* first statement that raised; reads and digests count the inputs read and
\* the digests computed on the way.
StepsFailed(failed, data, n) ==
    [ ok |-> FALSE, exc |-> failed.exc, msg |-> failed.msg, data |-> data,
      normalized |-> <<>>, hash |-> <<>>, reads |-> n, digests |-> 0 ]

StepsHashed(data, normalized, hash) ==
    IF ~hash.ok THEN StepsFailed(hash, data.val, 1)
    ELSE [ ok |-> TRUE, exc |-> "", msg |-> "", data |-> data.val,
           normalized |-> normalized.val, hash |-> hash.val,
           reads |-> 1, digests |-> 1 ]

StepsNormalized(algorithm, data, normalized) ==
    IF ~normalized.ok THEN StepsFailed(normalized, data.val, 1)
    ELSE StepsHashed(data, normalized, calculate_hash(normalized.val, algorithm))

StepsRead(algorithm, normalization, data) ==
    IF ~data.ok THEN StepsFailed(data, <<>>, 0)
    ELSE StepsNormalized(algorithm, data, normalize_data(data.val, normalization))

HashSteps(algorithm, input_type, input_data, normalization) ==
    StepsRead(algorithm, normalization, get_input_data(input_type, input_data))

(***************************************************************************)
(* The tools                                                               *)
(***************************************************************************)
\* What a tool call hands back: the str of `except Exception`, or the
\* arguments the formatter of the requested format is called with.
ErrorResponse(msg) ==
    [ error |-> TRUE, prefix |-> "Error: ", message |-> msg, format |-> "",
      operation |-> "", result |-> <<>>, details |-> <<>> ]

FormattedResponse(format, operation, result, details) ==
    [ error |-> FALSE, prefix |-> "", message |-> "", format |-> format,
      operation |-> operation, result |-> result, details |-> details ]

\* the outcome of a call: a returned response or a propagated exception
Returned(response, reads, digests) ==
    [raised |-> FALSE, exc |-> "", response |-> response,
     reads |-> reads, digests |-> digests]

Propagated(exc, reads, digests) ==
    [raised |-> TRUE, exc |-> exc, response |-> ErrorResponse(""),
     reads |-> reads, digests |-> digests]

\* `except ValueError as e` in place of the clause the tools have: any other
\* exception leaves the tool
CatchValueErrorOnly(exc, msg, reads, digests) ==
    IF IsValueError(exc)
    THEN Returned(ErrorResponse(msg), reads, digests)
    ELSE Propagated(exc, reads, digests)

\* the except clause of the three tools: `except Exception as e`
Catch(exc, msg, reads, digests) ==
    IF exc \in ExceptionClasses
    THEN Returned(ErrorResponse(msg), reads, digests)
    ELSE Propagated(exc, reads, digests)

\* the size entries every details mapping has
SizeDetails(steps, normalization) ==
    [ input_size_bytes |-> Len(steps.data),
      normalized_size_bytes |->
          IF normalization # "none" THEN Len(steps.normalized) ELSE Len(steps.data) ]

\* the entries added for a file input
FileDetails(input_type, input_data) ==
    IF input_type = "file"
    THEN [file_path |-> input_data, file_size |-> path_getsize(input_data)]
    ELSE <<>>

\* the file_size entry of a batch result
FileSize(input_type, input_data) ==
    IF input_type = "file" THEN [file_size |-> path_getsize(input_data)] ELSE <<>>

\* calculate_hash_wrapper(params) behind its first three statements
\* the except clause formatting its message as the request asks: a record
\* for json, the plain string for markdown
CalculationOutcomeErrorFormatted(params, steps) ==
    IF ~steps.ok /\ steps.exc \in ExceptionClasses /\ params.response_format = "json"
    THEN Returned(FormattedResponse("json", <<"Error">>, steps.msg, <<>>),
                  steps.reads, steps.digests)
    ELSE IF ~steps.ok THEN Catch(steps.exc, steps.msg, steps.reads, steps.digests)
    ELSE Returned(FormattedResponse(params.response_format,
                      <<"Hash Calculation: ", params.algorithm>>, steps.hash, <<>>),
                  steps.reads, steps.digests)

CalculationOutcome(params, steps) ==
    IF ~steps.ok THEN Catch(steps.exc, steps.msg, steps.reads, steps.digests)
        ELSE Returned(
                 FormattedResponse(params.response_format,
                     <<"Hash Calculation: ", params.algorithm>>,
                     steps.hash,
                     [ algorithm |-> params.algorithm,
                       input_type |-> params.input_type,
                       normalization |-> params.normalization ]
                     @@ SizeDetails(steps, params.normalization)
                     @@ FileDetails(params.input_type, params.input_data)),
                 steps.reads, steps.digests)

calculate_hash_wrapper(params) ==
    CalculationOutcome(params,
        HashSteps(params.algorithm, params.input_type, params.input_data,
                  params.normalization))

\* compare_hash_wrapper(params) behind its first three statements
ComparisonOutcome(params, steps, match) ==
        IF ~steps.ok THEN Catch(steps.exc, steps.msg, steps.reads, steps.digests)
        ELSE Returned(
                 FormattedResponse(params.response_format,
                     IF params.response_format = "markdown"
                     THEN <<"Hash Comparison: ", params.algorithm,
                            IF match THEN " MATCH" ELSE " MISMATCH">>
                     ELSE <<"Hash Comparison: ", params.algorithm>>,
                     [ match |-> match,
                       calculated_hash |-> steps.hash,
                       expected_hash |-> params.expected_hash ],
                     [ algorithm |-> params.algorithm,
                       input_type |-> params.input_type,
                       normalization |-> params.normalization,
                       calculated_hash |-> steps.hash,
                       expected_hash |-> params.expected_hash,
                       match |-> match ]
                     @@ SizeDetails(steps, params.normalization)
                     @@ FileDetails(params.input_type, params.input_data)),
                 steps.reads, steps.digests)

\* calculated_hash == params.expected_hash.upper(): the comparison made in the
\* wrong case
HashesMatchUpper(calculated_hash, expected_hash) ==
    calculated_hash = upper(expected_hash)

\* len(calculated_hash) == len(params.expected_hash): the comparison of the
\* lengths alone
HashesSameLength(calculated_hash, expected_hash) ==
    Len(calculated_hash) = Len(expected_hash)

\* calculated_hash.lower() == params.expected_hash.lower()
HashesMatch(calculated_hash, expected_hash) ==
    lower(calculated_hash) = lower(expected_hash)

ComparisonSteps(params, steps) ==
    ComparisonOutcome(params, steps, HashesMatch(steps.hash, params.expected_hash))

compare_hash_wrapper(params) ==
    ComparisonSteps(params,
        HashSteps(params.algorithm, params.input_type, params.input_data,
                  params.normalization))

\* x.value of an argument of batch_hash_calculation: a member of the
\* enumeration has it, any other value is a plain str and has not
HasValue(x, enumeration) == x \in enumeration

\* The loop of batch_hash_calculation from item i on: the entries appended to
\* results and details_list, or the exception that ended the loop.
LoopEnded(ok, exc, msg, results, details_list, reads, digests) ==
    [ ok |-> ok, exc |-> exc, msg |-> msg, results |-> results,
      details_list |-> details_list, reads |-> reads, digests |-> digests ]

RECURSIVE BatchLoop(_, _, _, _, _, _, _)

\* the body of the loop for item i behind its first three statements
BatchItem(algorithm, input_type, input_list, normalization, i, results, details_list, steps) ==
    IF ~steps.ok
    THEN LoopEnded(FALSE, steps.exc, steps.msg, results, details_list,
                   i - 1 + steps.reads, i - 1 + steps.digests)
    ELSE IF ~HasValue(algorithm, HashAlgorithm)
            \/ ~HasValue(normalization, NormalizationType)
    THEN LoopEnded(FALSE, "AttributeError", "'str' object has no attribute 'value'",
                   results, details_list, i, i)
    ELSE BatchLoop(algorithm, input_type, input_list, normalization, i + 1,
             Append(results,
                 [input |-> input_list[i], hash |-> steps.hash]
                 @@ FileSize(input_type, input_list[i])),
             Append(details_list,
                 [ input |-> input_list[i], algorithm |-> algorithm,
                   normalization |-> normalization ]
                 @@ SizeDetails(steps, normalization)
                 @@ FileDetails(input_type, input_list[i])))

BatchLoop(algorithm, input_type, input_list, normalization, i, results, details_list) ==
    IF i > Len(input_list)
    THEN LoopEnded(TRUE, "", "", results, details_list, i - 1, i - 1)
    ELSE BatchItem(algorithm, input_type, input_list, normalization, i, results,
                   details_list,
                   HashSteps(algorithm, input_type, input_list[i], normalization))

\* batch_hash_calculation behind its loop
BatchOutcome(args, loop) ==
    IF ~loop.ok THEN Catch(loop.exc, loop.msg, loop.reads, loop.digests)
    ELSE IF ~HasValue(args.algorithm, HashAlgorithm)
            \/ ~HasValue(args.input_type, InputType)
            \/ ~HasValue(args.normalization, NormalizationType)
    THEN Catch("AttributeError", "'str' object has no attribute 'value'",
               loop.reads, loop.digests)
    ELSE Returned(
             FormattedResponse(
                 IF args.response_format = "markdown" THEN "markdown" ELSE "json",
                 <<"Batch Hash Calculation: ", args.algorithm>>,
                 loop.results,
                 [ algorithm |-> args.algorithm,
                   input_type |-> args.input_type,
                   normalization |-> args.normalization,
                   total_inputs |-> Len(args.input_list),
                   inputs |-> loop.details_list ]),
             loop.reads, loop.digests)

\* batch_hash_calculation(algorithm, input_type, input_list, normalization,
\* response_format)
batch_hash_calculation(args) ==
    BatchOutcome(args,
        BatchLoop(args.algorithm, args.input_type, args.input_list,
                  args.normalization, 1, <<>>, <<>>))

(***************************************************************************)
(* The JSON response                                                       *)
(***************************************************************************)
\* the characters of the str literals and enumeration values a response is
\* built from
Literal ==
    "operation" :> <<111, 112, 101, 114, 97, 116, 105, 111, 110>>
    @@ "result" :> <<114, 101, 115, 117, 108, 116>>
    @@ "details" :> <<100, 101, 116, 97, 105, 108, 115>>
    @@ "algorithm" :> <<97, 108, 103, 111, 114, 105, 116, 104, 109>>
    @@ "input_type" :> <<105, 110, 112, 117, 116, 95, 116, 121, 112, 101>>
    @@ "normalization" :> <<110, 111, 114, 109, 97, 108, 105, 122, 97, 116, 105, 111, 110>>
    @@ "input_size_bytes" :> <<105, 110, 112, 117, 116, 95, 115, 105, 122, 101, 95, 98, 121, 116, 101, 115>>
    @@ "normalized_size_bytes" :> <<110, 111, 114, 109, 97, 108, 105, 122, 101, 100, 95, 115, 105, 122, 101, 95, 98, 121, 116, 101, 115>>
    @@ "file_path" :> <<102, 105, 108, 101, 95, 112, 97, 116, 104>>
    @@ "file_size" :> <<102, 105, 108, 101, 95, 115, 105, 122, 101>>
    @@ "match" :> <<109, 97, 116, 99, 104>>
    @@ "calculated_hash" :> <<99, 97, 108, 99, 117, 108, 97, 116, 101, 100, 95, 104, 97, 115, 104>>
    @@ "expected_hash" :> <<101, 120, 112, 101, 99, 116, 101, 100, 95, 104, 97, 115, 104>>
    @@ "total_inputs" :> <<116, 111, 116, 97, 108, 95, 105, 110, 112, 117, 116, 115>>
    @@ "inputs" :> <<105, 110, 112, 117, 116, 115>>
    @@ "input" :> <<105, 110, 112, 117, 116>>
    @@ "hash" :> <<104, 97, 115, 104>>
    @@ "md5" :> <<109, 100, 53>>
    @@ "sha1" :> <<115, 104, 97, 49>>
    @@ "sha256" :> <<115, 104, 97, 50, 53, 54>>
    @@ "sha512" :> <<115, 104, 97, 53, 49, 50>>
    @@ "sha3_256" :> <<115, 104, 97, 51, 95, 50, 53, 54>>
    @@ "sha3_512" :> <<115, 104, 97, 51, 95, 53, 49, 50>>
    @@ "blake2b" :> <<98, 108, 97, 107, 101, 50, 98>>
    @@ "crc32" :> <<99, 114, 99, 51, 50>>
    @@ "text" :> <<116, 101, 120, 116>>
    @@ "file" :> <<102, 105, 108, 101>>
    @@ "base64" :> <<98, 97, 115, 101, 54, 52>>
    @@ "hex" :> <<104, 101, 120>>
    @@ "none" :> <<110, 111, 110, 101>>
    @@ "json" :> <<106, 115, 111, 110>>
    @@ "Hash Calculation: " :> <<72, 97, 115, 104, 32, 67, 97, 108, 99, 117, 108, 97, 116, 105, 111, 110, 58, 32>>
    @@ "Hash Comparison: " :> <<72, 97, 115, 104, 32, 67, 111, 109, 112, 97, 114, 105, 115, 111, 110, 58, 32>>
    @@ "mcp_servers" :> <<109, 99, 112, 95, 115, 101, 114, 118, 101, 114, 115>>
    @@ "name" :> <<110, 97, 109, 101>>
    @@ "command" :> <<99, 111, 109, 109, 97, 110, 100>>
    @@ "version" :> <<118, 101, 114, 115, 105, 111, 110>>
    @@ "config.json" :> <<99, 111, 110, 102, 105, 103, 46, 106, 115, 111, 110>>
    @@ "mcp.json" :> <<109, 99, 112, 46, 106, 115, 111, 110>>
    @@ ".backup." :> <<46, 98, 97, 99, 107, 117, 112, 46>>
    @@ "backup_info." :> <<98, 97, 99, 107, 117, 112, 95, 105, 110, 102, 111, 46>>
    @@ ".json" :> <<46, 106, 115, 111, 110>>
    @@ ".before_restore." :> <<46, 98, 101, 102, 111, 114, 101, 95, 114, 101, 115, 116, 111, 114, 101, 46>>
    @@ "timestamp" :> <<116, 105, 109, 101, 115, 116, 97, 109, 112>>
    @@ "files" :> <<102, 105, 108, 101, 115>>
    @@ "backup_dir" :> <<98, 97, 99, 107, 117, 112, 95, 100, 105, 114>>
    @@ "original" :> <<111, 114, 105, 103, 105, 110, 97, 108>>
    @@ "backup" :> <<98, 97, 99, 107, 117, 112>>
    @@ "size" :> <<115, 105, 122, 101>>
    @@ "/w/backup" :> <<47, 119, 47, 98, 97, 99, 107, 117, 112>>
    @@ "y" :> <<121>>
    @@ "Batch Hash Calculation: " :> <<66, 97, 116, 99, 104, 32, 72, 97, 115, 104, 32, 67, 97, 108, 99, 117, 108, 97, 116, 105, 111, 110, 58, 32>>

\* an f-string: its parts one behind the other
RECURSIVE FString(_)
FString(parts) ==
    IF parts = <<>> THEN <<>> ELSE Literal[Head(parts)] \o FString(Tail(parts))

\* one item of a dict literal
Item(key, v) == <<Literal[key], v>>

JsonBool(b) == JsonAtom(IF b THEN "true" ELSE "false")

\* the items every details dict starts with, a batch entry has no input_type
EnumItems(d) ==
    <<Item("algorithm", JsonStr(Literal[d.algorithm]))>>
    \o (IF "input_type" \in DOMAIN d
        THEN <<Item("input_type", JsonStr(Literal[d.input_type]))>> ELSE <<>>)
    \o <<Item("normalization", JsonStr(Literal[d.normalization]))>>

SizeItems(d) ==
    << Item("input_size_bytes", JsonInt(d.input_size_bytes)),
       Item("normalized_size_bytes", JsonInt(d.normalized_size_bytes)) >>

\* the items added for a file input
FileItems(d) ==
    (IF "file_path" \in DOMAIN d
     THEN <<Item("file_path", JsonStr(d.file_path))>> ELSE <<>>)
    \o (IF "file_size" \in DOMAIN d
        THEN <<Item("file_size", JsonInt(d.file_size))>> ELSE <<>>)

\* result_entry and details_entry of batch_hash_calculation
ResultEntry(e) ==
    JsonObject(<<Item("input", JsonStr(e.input)), Item("hash", JsonStr(e.hash))>>
               \o FileItems(e))

DetailsEntry(e) ==
    JsonObject(<<Item("input", JsonStr(e.input))>> \o EnumItems(e) \o SizeItems(e)
               \o FileItems(e))

\* the result a tool hands to the formatter: a str, a dict or a list of dicts
ResultValue(name, result) ==
    CASE name = "calculation" -> JsonStr(result)
      [] name = "comparison" ->
             JsonObject(<< Item("match", JsonBool(result.match)),
                           Item("calculated_hash", JsonStr(result.calculated_hash)),
                           Item("expected_hash", JsonStr(result.expected_hash)) >>)
      [] name = "batch" ->
             JsonArray([i \in 1..Len(result) |-> ResultEntry(result[i])])

\* the details dict of a tool, its items in the order they are inserted
DetailsDict(name, d) ==
    CASE name = "calculation" -> JsonObject(EnumItems(d) \o SizeItems(d) \o FileItems(d))
      [] name = "comparison" ->
             JsonObject(EnumItems(d)
                 \o << Item("calculated_hash", JsonStr(d.calculated_hash)),
                       Item("expected_hash", JsonStr(d.expected_hash)),
                       Item("match", JsonBool(d.match)) >>
                 \o SizeItems(d) \o FileItems(d))
      [] name = "batch" ->
             JsonObject(EnumItems(d)
                 \o << Item("total_inputs", JsonInt(d.total_inputs)),
                       Item("inputs",
                            JsonArray([i \in 1..Len(d.inputs) |->
                                          DetailsEntry(d.inputs[i])])) >>)

\* "\n" and the indentation of a nesting level
NewlineIndent(level) == <<10>> \o [i \in 1..(2 * level) |-> 32]

\* ESCAPE with ensure_ascii=False: a character above 126 is written as it is
EscapeCharUnicode(c) == IF c > 126 THEN <<c>> ELSE EscapeChar(c)

RECURSIVE EscapeCharsUnicode(_)
EscapeCharsUnicode(s) ==
    IF s = <<>> THEN <<>>
    ELSE IF Len(s) = 1 THEN EscapeCharUnicode(s[1])
    ELSE EscapeCharsUnicode(SubSeq(s, 1, Len(s) \div 2))
         \o EscapeCharsUnicode(SubSeq(s, Len(s) \div 2 + 1, Len(s)))

\* a str between its quotes
DumpStr(s, ensure_ascii) ==
    <<34>> \o (IF ensure_ascii THEN EscapeChars(s) ELSE EscapeCharsUnicode(s)) \o <<34>>

RECURSIVE json_dumps_indent(_, _, _)
RECURSIVE IndentItems(_, _, _)
RECURSIVE IndentElements(_, _, _)

\* json.dumps(v, indent=2, ensure_ascii=...): the items of a dict in
\* insertion order, one item or element per line
json_dumps_indent(v, level, ensure_ascii) ==
    CASE v.t = "array" ->
             IF v.kids = <<>> THEN <<91, 93>>
             ELSE <<91>> \o NewlineIndent(level + 1)
                  \o IndentElements(v.kids, level + 1, ensure_ascii)
                  \o NewlineIndent(level) \o <<93>>
      [] v.t = "object" ->
             IF v.kids = <<>> THEN <<123, 125>>
             ELSE <<123>> \o NewlineIndent(level + 1)
                  \o IndentItems(v.kids, level + 1, ensure_ascii)
                  \o NewlineIndent(level) \o <<125>>
      [] v.t = "str" -> DumpStr(v.s, ensure_ascii)
      [] OTHER -> json_dumps(v)

IndentItems(items, level, ensure_ascii) ==
    DumpStr(items[1][1], ensure_ascii) \o <<58, 32>>
    \o json_dumps_indent(items[1][2], level, ensure_ascii)
    \o (IF Len(items) > 1
        THEN <<44>> \o NewlineIndent(level)
             \o IndentItems(Tail(items), level, ensure_ascii)
        ELSE <<>>)

IndentElements(items, level, ensure_ascii) ==
    json_dumps_indent(items[1], level, ensure_ascii)
    \o (IF Len(items) > 1
        THEN <<44>> \o NewlineIndent(level)
             \o IndentElements(Tail(items), level, ensure_ascii)
        ELSE <<>>)

\* None
None == JsonAtom("null")

\* bool(v): None, False, 0, "" and the empty list and dict are false
Truthy(v) ==
    CASE v.t \in {"null", "false"} -> FALSE
      [] v.t = "int" -> v.n # 0
      [] v.t = "str" -> v.s # <<>>
      [] v.t \in {"array", "object"} -> v.kids # <<>>
      [] OTHER -> TRUE

\* "details": details in place of "details": details or {}
FormatDetailsAsGiven(operation, result, details) ==
    json_dumps_indent(
        JsonObject(<< Item("operation", JsonStr(operation)),
                      Item("result", result),
                      Item("details", details) >>), 0, TRUE)

\* _format_result_json(operation, result, details)
format_result_json(operation, result, details) ==
    json_dumps_indent(
        JsonObject(<< Item("operation", JsonStr(operation)),
                      Item("result", result),
                      Item("details",
                           IF Truthy(details) THEN details ELSE JsonObject(<<>>)) >>),
        0, TRUE)

(***************************************************************************)
(* toggle_mcp.py: the servers of mcp.json                                  *)
(***************************************************************************)
\* mcp.json in the working directory: no file, a file that cannot be read,
\* or a file and its text
NoFile == [kind |-> "missing", text |-> <<>>]

Unreadable == [kind |-> "unreadable", text |-> <<>>]

TextFile(text) == [kind |-> "file", text |-> text]

\* what json.load made of the text, None for a JSONDecodeError
LoadParsed(parsed) == IF parsed.ok THEN parsed.val ELSE None

\* load_mcp_config(): None when there is no file and when open or json.load
\* raise
load_mcp_config(file) ==
    IF file.kind # "file" THEN None ELSE LoadParsed(json_loads(file.text))

\* save_mcp_config(config): open(config_file, 'w') truncates the file, json.dump
\* writes it; open fails (disk "denied") and leaves the file as it is, or a
\* write fails (disk "full") behind the truncation
save_mcp_config(config, disk, file) ==
    CASE disk = "ok" ->
             [saved |-> TRUE, file |-> TextFile(json_dumps_indent(config, 0, FALSE))]
      [] disk = "denied" -> [saved |-> FALSE, file |-> file]
      [] disk = "full" -> [saved |-> FALSE, file |-> TextFile(<<>>)]

\* d.get(key, default)
Get(d, key, default) ==
    IF \E i \in 1..Len(d.kids) : d.kids[i][1] = Literal[key]
    THEN d.kids[CHOOSE i \in 1..Len(d.kids) : d.kids[i][1] = Literal[key]][2]
    ELSE default

\* d[key] = v
SetItem(d, key, v) == JsonObject(DictSet(d.kids, Literal[key], v))

\* the end of a call: what it returned ("True", "False") or that it raised,
\* the file it leaves and the number of times it opened the file for writing
Done(result, file, writes) == [result |-> result, file |-> file, writes |-> writes]

\* `if save_mcp_config(config): return True else: return False`
Saved(save) == Done(IF save.saved THEN "True" ELSE "False", save.file, 1)

\* any(server.get("name") == server_name for server in servers)
NameFound(servers, server_name) ==
    \E i \in 1..Len(servers) : Get(servers[i], "name", None) = server_name

\* an enable that puts a server of the name into the config when there is
\* none
EnableLoadedRestoring(server_name, config, disk, file) ==
    IF ~Truthy(config) THEN Done("False", file, 0)
    ELSE IF config.t # "object" THEN Done("AttributeError", file, 0)
    ELSE IF ~NameFound(Get(config, "mcp_servers", JsonArray(<<>>)).kids, server_name)
    THEN Saved(save_mcp_config(
                   SetItem(config, "mcp_servers",
                       JsonArray(Append(Get(config, "mcp_servers", JsonArray(<<>>)).kids,
                                        JsonObject(<<Item("name", server_name)>>)))),
                   disk, file))
    ELSE Saved(save_mcp_config(config, disk, file))

\* enable_mcp_server behind load_mcp_config
EnableLoaded(server_name, config, disk, file) ==
    IF ~Truthy(config) THEN Done("False", file, 0)
    ELSE IF config.t # "object" THEN Done("AttributeError", file, 0)
    ELSE IF ~NameFound(Get(config, "mcp_servers", JsonArray(<<>>)).kids, server_name)
    THEN Done("False", file, 0)
    ELSE Saved(save_mcp_config(config, disk, file))

enable_mcp_server(server_name, disk, file) ==
    EnableLoaded(server_name, load_mcp_config(file), disk, file)

\* the loop of disable_mcp_server that removes the first server of the name
\* and keeps the later ones
RECURSIVE RemoveFirstMatch(_, _)
RemoveFirstMatch(servers, server_name) ==
    IF servers = <<>> THEN <<>>
    ELSE IF Get(Head(servers), "name", None) = server_name THEN Tail(servers)
    ELSE <<Head(servers)>> \o RemoveFirstMatch(Tail(servers), server_name)

\* the loop of disable_mcp_server: new_servers
RECURSIVE new_servers(_, _)
new_servers(servers, server_name) ==
    IF servers = <<>> THEN <<>>
    ELSE IF Get(Head(servers), "name", None) = server_name
    THEN new_servers(Tail(servers), server_name)
    ELSE <<Head(servers)>> \o new_servers(Tail(servers), server_name)

\* disable_mcp_server behind load_mcp_config
DisableLoaded(server_name, config, disk, file) ==
    IF ~Truthy(config) THEN Done("False", file, 0)
    ELSE IF config.t # "object" THEN Done("AttributeError", file, 0)
    ELSE IF ~NameFound(Get(config, "mcp_servers", JsonArray(<<>>)).kids, server_name)
    THEN Done("False", file, 0)
    ELSE Saved(save_mcp_config(
                   SetItem(config, "mcp_servers",
                       JsonArray(new_servers(
                           Get(config, "mcp_servers", JsonArray(<<>>)).kids,
                           server_name))),
                   disk, file))

disable_mcp_server(server_name, disk, file) ==
    DisableLoaded(server_name, load_mcp_config(file), disk, file)

\* add_mcp_server without the check for a server of the same name
NameNeverTaken(servers, server_name) == FALSE

\* the loop of add_mcp_server: a server of the name exists
NameTaken(servers, server_name) == NameFound(servers, server_name)

\* add_mcp_server behind load_mcp_config
AddLoaded(server_config, config, disk, file) ==
    IF ~Truthy(config) THEN Done("False", file, 0)
    ELSE IF config.t # "object" THEN Done("AttributeError", file, 0)
    ELSE IF NameTaken(Get(config, "mcp_servers", JsonArray(<<>>)).kids,
                      Get(server_config, "name", None))
    THEN Done("False", file, 0)
    ELSE Saved(save_mcp_config(
                   SetItem(config, "mcp_servers",
                       JsonArray(Append(Get(config, "mcp_servers", JsonArray(<<>>)).kids,
                                        server_config))),
                   disk, file))

add_mcp_server(server_config, disk, file) ==
    AddLoaded(server_config, load_mcp_config(file), disk, file)

(***************************************************************************)
(* backup_config.py and restore_config.py: the files of the working        *)
(* directory and of its backup directory                                   *)
(***************************************************************************)
\* datetime.now().strftime("%Y%m%d_%H%M%S") at five instants of local time,
\* in the order of the instants
strftime ==
    << <<50, 48, 50, 52, 49, 48, 50, 55, 95, 48, 49, 53, 57, 53, 57>>,
       <<50, 48, 50, 52, 49, 48, 50, 55, 95, 48, 50, 48, 48, 48, 48>>,
       <<50, 48, 50, 52, 49, 48, 50, 55, 95, 48, 50, 51, 48, 48, 48>>,
       <<50, 48, 50, 52, 49, 50, 51, 49, 95, 50, 51, 53, 57, 53, 57>>,
       <<50, 48, 50, 53, 48, 49, 48, 49, 95, 48, 48, 48, 48, 48, 48>> >>

\* The content of a file: bytes, or for an info file the value json.load
\* reads from the text json.dump(backup_info, f, indent=2, ensure_ascii=False)
\* wrote.
Bytes(data) == [kind |-> "bytes", data |-> data]

JsonFile(v) ==
    [kind |-> "json", val |-> LoadParsed(json_loads(json_dumps_indent(v, 0, FALSE)))]

\* a directory is a function from the names of its files to their contents
NoFiles == [name \in {} |-> Bytes(<<>>)]

\* open(name, 'w') and shutil.copy2(..., name): the file has the content
WriteFile(files, name, content) == (name :> content) @@ files

\* the backup directory before backup_path.mkdir
NoDirectory == [exists |-> FALSE, files |-> NoFiles]

Directory(files) == [exists |-> TRUE, files |-> files]

files_to_backup == <<Literal["config.json"], Literal["mcp.json"]>>

\* f"{filename}.backup.{timestamp}"
BackupName(filename, timestamp) == filename \o Literal[".backup."] \o timestamp

\* f"backup_info.{timestamp}.json"
InfoName(timestamp) == Literal["backup_info."] \o timestamp \o Literal[".json"]

\* f"{original}.before_restore.{current_timestamp}"
BeforeRestoreName(original, timestamp) ==
    original \o Literal[".before_restore."] \o timestamp

\* file_info of backup_config_files
FileInfo(filename, timestamp, size) ==
    JsonObject(<< Item("original", JsonStr(filename)),
                  Item("backup", JsonStr(BackupName(filename, timestamp))),
                  Item("size", JsonInt(size)) >>)

\* backup_info of backup_config_files
BackupInfo(timestamp, file_infos) ==
    JsonObject(<< Item("timestamp", JsonStr(timestamp)),
                  Item("files", JsonArray(file_infos)),
                  Item("backup_dir", JsonStr(Literal["/w/backup"])) >>)

\* the end of the loop of backup_config_files: the files of the backup
\* directory and backup_info["files"], or the exception of shutil.copy2
LoopDone(raised, files, file_infos) ==
    [raised |-> raised, files |-> files, file_infos |-> file_infos]

\* The loop of backup_config_files from file i on.  shutil.copy2 raises for
\* a source that cannot be read, before it writes anything.
RECURSIVE BackupLoop(_, _, _, _, _, _)
BackupLoop(i, directory, files, timestamp, file_infos, unreadable) ==
    IF i > Len(files_to_backup) THEN LoopDone(FALSE, files, file_infos)
    ELSE IF files_to_backup[i] \notin DOMAIN directory
    THEN BackupLoop(i + 1, directory, files, timestamp, file_infos, unreadable)
    ELSE IF files_to_backup[i] \in unreadable THEN LoopDone(TRUE, files, file_infos)
    ELSE BackupLoop(i + 1, directory,
             WriteFile(files, BackupName(files_to_backup[i], timestamp),
                       directory[files_to_backup[i]]),
             timestamp,
             Append(file_infos,
                    FileInfo(files_to_backup[i], timestamp,
                             Len(directory[files_to_backup[i]].data))),
             unreadable)

\* the info file written only when a file was copied
BackupDoneIfCopied(loop, timestamp) ==
    IF loop.raised
    THEN [result |-> "raised", dir |-> Directory(loop.files), info |-> None]
    ELSE [result |-> "returned",
          dir |-> IF loop.file_infos = <<>> THEN Directory(loop.files)
                  ELSE Directory(WriteFile(loop.files, InfoName(timestamp),
                                     JsonFile(BackupInfo(timestamp, loop.file_infos)))),
          info |-> BackupInfo(timestamp, loop.file_infos)]

\* backup_config_files behind its loop: the info file is written and
\* backup_info returned, or the exception of the loop leaves the function
BackupDone(loop, timestamp) ==
    IF loop.raised
    THEN [result |-> "raised", dir |-> Directory(loop.files), info |-> None]
    ELSE [result |-> "returned",
          dir |-> Directory(WriteFile(loop.files, InfoName(timestamp),
                                      JsonFile(BackupInfo(timestamp, loop.file_infos)))),
          info |-> BackupInfo(timestamp, loop.file_infos)]

\* backup_config_files(): directory holds the files of the working directory,
\* dir is the backup directory
backup_config_files(directory, dir, timestamp, unreadable) ==
    BackupDone(BackupLoop(1, directory, dir.files, timestamp, <<>>, unreadable),
               timestamp)

\* a name that backup_path.glob("backup_info.*.json") yields
IsInfoName(name) ==
    /\ Len(name) >= Len(Literal["backup_info."]) + Len(Literal[".json"])
    /\ SubSeq(name, 1, Len(Literal["backup_info."])) = Literal["backup_info."]
    /\ SubSeq(name, Len(name) - Len(Literal[".json"]) + 1, Len(name)) = Literal[".json"]

\* the info files json.load reads
InfoFiles(dir) ==
    {name \in DOMAIN dir.files : IsInfoName(name) /\ dir.files[name].kind = "json"}

\* x.get("timestamp", "")
TimestampOf(info) == Get(info, "timestamp", JsonStr(<<>>)).s

\* backups.sort(key=..., reverse=False): the oldest timestamp first
RECURSIVE SortOldestFirst(_)
SortOldestFirst(infos) ==
    IF infos = {} THEN <<>>
    ELSE LET first == CHOOSE x \in infos :
                          \A y \in infos : ~StrLess(TimestampOf(y), TimestampOf(x))
         IN  <<first>> \o SortOldestFirst(infos \ {first})

\* backups.sort(key=lambda x: x.get("timestamp", ""), reverse=True)
RECURSIVE SortNewestFirst(_)
SortNewestFirst(infos) ==
    IF infos = {} THEN <<>>
    ELSE LET first == CHOOSE x \in infos :
                          \A y \in infos : ~StrLess(TimestampOf(x), TimestampOf(y))
         IN  <<first>> \o SortNewestFirst(infos \ {first})

\* list_backups(): [] when there is no backup directory
list_backups(dir) ==
    IF ~dir.exists THEN <<>>
    ELSE SortNewestFirst({dir.files[name].val : name \in InfoFiles(dir)})

\* backups[k] of Python: a negative k counts from the end
PyIndex(list, k) == IF k >= 0 THEN list[k + 1] ELSE list[Len(list) + k + 1]

\* the end of a restore: what it returned, the files of the working
\* directory, the copies it made or failed to make in their order, and the
\* timestamp of the backup it took the files from
Restored(result, directory, trace, chosen) ==
    [result |-> result, directory |-> directory, trace |-> trace, chosen |-> chosen]

\* backup_path / backup_file exists
SourceExists(backup, dir, backup_file) ==
    /\ Get(backup, "backup_dir", JsonStr(Literal["backup"])).s = Literal["/w/backup"]
    /\ dir.exists
    /\ backup_file \in DOMAIN dir.files

\* one copy of the trace
Copy(op, name, content) == [op |-> op, name |-> name, content |-> content]

\* the body of `try` with the saving copy in a try of its own: the target is
\* overwritten although the saving copy failed
RestoreOneUnsaved(original, source, directory, timestamp, fault) ==
    IF fault = "restore"
    THEN [ok |-> FALSE, directory |-> directory, trace |-> <<Copy("restore failed", original, source)>>]
    ELSE [ok |-> TRUE, directory |-> WriteFile(directory, original, source),
          trace |-> << Copy("save failed", original, source),
                       Copy("restore", original, source) >>]

\* The body of `try` for one file: the target, when it exists, is copied to
\* its before_restore name, then the backup is copied over the target.
\* shutil.copy2 raises (fault "save": the first copy, "restore": the second)
\* before it writes.
RestoreOne(original, source, directory, timestamp, fault) ==
    IF original \in DOMAIN directory /\ fault = "save"
    THEN [ok |-> FALSE, directory |-> directory,
          trace |-> <<Copy("save failed", original, directory[original])>>]
    ELSE IF original \in DOMAIN directory
    THEN IF fault = "restore"
         THEN [ok |-> FALSE,
               directory |-> WriteFile(directory, BeforeRestoreName(original, timestamp),
                                       directory[original]),
               trace |-> << Copy("save", original, directory[original]),
                            Copy("restore failed", original, source) >>]
         ELSE [ok |-> TRUE,
               directory |-> WriteFile(
                                 WriteFile(directory,
                                           BeforeRestoreName(original, timestamp),
                                           directory[original]),
                                 original, source),
               trace |-> << Copy("save", original, directory[original]),
                            Copy("restore", original, source) >>]
    ELSE IF fault = "restore"
    THEN [ok |-> FALSE, directory |-> directory,
          trace |-> <<Copy("restore failed", original, source)>>]
    ELSE [ok |-> TRUE, directory |-> WriteFile(directory, original, source),
          trace |-> <<Copy("restore", original, source)>>]

RECURSIVE RestoreLoop(_, _, _, _, _, _, _, _)

\* which copy of shutil.copy2 raises for the file: fault names one file of
\* the call and the copy that fails for it
FaultAt(fault, original) == IF fault.name = original THEN fault.kind ELSE "none"

\* the loop left at the first file whose restore raised
RestoreNextUntilError(backup, i, dir, directory, timestamp, fault, trace, restored, one) ==
    IF one.ok
    THEN RestoreLoop(backup, i + 1, dir, one.directory, timestamp, fault,
                     trace \o one.trace, restored + 1)
    ELSE Restored(IF restored > 0 THEN "True" ELSE "False", one.directory,
                  trace \o one.trace, TimestampOf(backup))

\* the loop of restore_from_backup behind `try` for file i
RestoreNext(backup, i, dir, directory, timestamp, fault, trace, restored, one) ==
    RestoreLoop(backup, i + 1, dir, one.directory, timestamp, fault,
                trace \o one.trace, restored + (IF one.ok THEN 1 ELSE 0))

\* the loop of restore_from_backup from file i on and the return behind it
RestoreLoop(backup, i, dir, directory, timestamp, fault, trace, restored) ==
    IF i > Len(Get(backup, "files", JsonArray(<<>>)).kids)
    THEN Restored(IF restored > 0 THEN "True" ELSE "False", directory, trace,
                  TimestampOf(backup))
    ELSE IF ~SourceExists(backup, dir,
                Get(Get(backup, "files", JsonArray(<<>>)).kids[i], "backup", None).s)
    THEN RestoreLoop(backup, i + 1, dir, directory, timestamp, fault, trace, restored)
    ELSE RestoreNext(backup, i, dir, directory, timestamp, fault, trace, restored,
             RestoreOne(
                 Get(Get(backup, "files", JsonArray(<<>>)).kids[i], "original", None).s,
                 dir.files[Get(Get(backup, "files", JsonArray(<<>>)).kids[i],
                               "backup", None).s],
                 directory, timestamp,
                 FaultAt(fault,
                     Get(Get(backup, "files", JsonArray(<<>>)).kids[i], "original",
                         None).s)))

\* backup_index <= len(backups): the check without its lower bound
IndexAtMost(backup_index, backups) == backup_index <= Len(backups)

\* not (backup_index < 1 or backup_index > len(backups))
IndexValid(backup_index, backups) ==
    ~(backup_index < 1 \/ backup_index > Len(backups))

\* input(...).strip().lower() == 'y'
Confirmed(answer) == lower(strip(answer)) = Literal["y"]

\* restore_from_backup behind list_backups
RestoreFrom(backups, backup_index, confirm, answer, fault, directory, dir, timestamp) ==
    IF backups = <<>> THEN Restored("False", directory, <<>>, <<>>)
    ELSE IF ~IndexValid(backup_index, backups)
    THEN Restored("False", directory, <<>>, <<>>)
    ELSE IF confirm /\ ~Confirmed(answer)
    THEN Restored("False", directory, <<>>, TimestampOf(PyIndex(backups, backup_index - 1)))
    ELSE RestoreLoop(PyIndex(backups, backup_index - 1), 1, dir, directory, timestamp,
                     fault, <<>>, 0)

\* restore_from_backup(backup_index, backup_dir, confirm)
restore_from_backup(backup_index, confirm, answer, fault, directory, dir, timestamp) ==
    RestoreFrom(list_backups(dir), backup_index, confirm, answer, fault, directory, dir,
                timestamp)

\* the backups of a timestamp, in the order of the list
WithTimestamp(backups, timestamp) ==
    SelectSeq(backups, LAMBDA backup : Get(backup, "timestamp", None) = JsonStr(timestamp))

\* the entries of a backup for a file
EntriesOf(backup, filename) ==
    SelectSeq(Get(backup, "files", JsonArray(<<>>)).kids,
              LAMBDA file_info : Get(file_info, "original", None) = JsonStr(filename))

\* restore_specific_file behind the search for backup_file
RestoreFile(filename, target_backup, backup_file, answer, fault, directory, dir, timestamp, one) ==
    IF ~SourceExists(target_backup, dir, backup_file)
    THEN Restored("False", directory, <<>>, TimestampOf(target_backup))
    ELSE IF ~Confirmed(answer)
    THEN Restored("False", directory, <<>>, TimestampOf(target_backup))
    ELSE Restored(IF one.ok THEN "True" ELSE "False", one.directory, one.trace,
                  TimestampOf(target_backup))

\* restore_specific_file behind the choice of target_backup
RestoreChosen(filename, target_backup, answer, fault, directory, dir, timestamp) ==
    IF EntriesOf(target_backup, filename) = <<>>
       \/ ~Truthy(Get(EntriesOf(target_backup, filename)[1], "backup", None))
    THEN Restored("False", directory, <<>>, TimestampOf(target_backup))
    ELSE IF ~SourceExists(target_backup, dir,
                Get(EntriesOf(target_backup, filename)[1], "backup", None).s)
    THEN Restored("False", directory, <<>>, TimestampOf(target_backup))
    ELSE RestoreFile(filename, target_backup,
             Get(EntriesOf(target_backup, filename)[1], "backup", None).s,
             answer, fault, directory, dir, timestamp,
             RestoreOne(filename,
                 dir.files[Get(EntriesOf(target_backup, filename)[1], "backup", None).s],
                 directory, timestamp, fault))

\* restore_specific_file behind list_backups: wanted is the timestamp
\* argument, <<>> for None
RestoreSpecific(backups, filename, wanted, answer, fault, directory, dir, timestamp) ==
    IF backups = <<>> THEN Restored("False", directory, <<>>, <<>>)
    ELSE IF wanted # <<>> /\ WithTimestamp(backups, wanted) = <<>>
    THEN Restored("False", directory, <<>>, <<>>)
    ELSE RestoreChosen(filename,
             IF wanted # <<>> THEN WithTimestamp(backups, wanted)[1] ELSE backups[1],
             answer, fault, directory, dir, timestamp)

\* restore_specific_file(filename, backup_dir, timestamp)
restore_specific_file(filename, wanted, answer, fault, directory, dir, timestamp) ==
    RestoreSpecific(list_backups(dir), filename, wanted, answer, fault, directory, dir,
                    timestamp)

(***************************************************************************)
(* The basic operations of the math library and the basic_operation tool   *)
(***************************************************************************)
OperationType == {"add", "subtract", "multiply", "divide"}

RECURSIVE Gcd(_, _)
Gcd(m, n) == IF n = 0 THEN m ELSE Gcd(n, m % n)

Magnitude(n) == IF n < 0 THEN -n ELSE n

\* the number n / d for d # 0, in lowest terms with a positive denominator
Fraction(n, d) ==
    [ num |-> (IF d < 0 THEN -n ELSE n) \div Gcd(Magnitude(n), Magnitude(d)),
      den |-> Magnitude(d) \div Gcd(Magnitude(n), Magnitude(d)) ]

add(a, b) == Ok(Fraction(a + b, 1))

subtract(a, b) == Ok(Fraction(a - b, 1))

multiply(a, b) == Ok(Fraction(a * b, 1))

\* a division that yields a value for every divisor
divideUnchecked(a, b) == Ok(IF b = 0 THEN [num |-> a, den |-> 0] ELSE Fraction(a, b))

\* divide fails with DivisionByZero when the divisor is exactly zero
divide(a, b) ==
    IF b = 0 THEN Raise("DivisionByZero", "division by zero") ELSE Ok(Fraction(a, b))

\* validate: the operation is one of the four
ValidOperation(operation) == operation \in OperationType

\* compute
BasicResult(operation, a, b) ==
    CASE operation = "add" -> add(a, b)
      [] operation = "subtract" -> subtract(a, b)
      [] operation = "multiply" -> multiply(a, b)
      [] operation = "divide" -> divide(a, b)

\* format, or the error string for a failure of the computation
BasicFormatted(operation, a, b, response_format, computed) ==
    IF computed.ok
    THEN [ failure |-> "",
           response |-> FormattedResponse(response_format, operation, computed.val,
                                          [a |-> a, b |-> b]) ]
    ELSE [failure |-> computed.exc, response |-> ErrorResponse(computed.msg)]

\* the dispatcher for basic_operation: validate, compute, format; a failure
\* of validation or computation is returned as an error string
basic_operation(operation, a, b, response_format) ==
    IF ~ValidOperation(operation)
    THEN [failure |-> "ValidationError", response |-> ErrorResponse("operation")]
    ELSE BasicFormatted(operation, a, b, response_format, BasicResult(operation, a, b))

(***************************************************************************)
(* The inputs of the model                                                 *)
(***************************************************************************)
\* the longest run of white space put before and behind an input string
MaxPad == 1

\* the longest input_list of a batch call
MaxList == 2

\* the most members an object of a JSON text has
MaxKeys == 2

\* the longest str normalize_text is applied to
MaxTextLen == 5

\* Values a caller can pass for an enumeration field: its members and one
\* str that is none of them.
AlgorithmInputs == HashAlgorithm \cup {"whirlpool"}

InputTypeInputs == InputType \cup {"url"}

NormalizationInputs == NormalizationType \cup {"yaml"}

\* lead spaces, the core, trail newlines
Padded(core, lead, trail) ==
    [i \in 1..lead |-> Ch.sp] \o core \o [i \in 1..trail |-> Ch.lf]

Paddings(cores) ==
    {Padded(c, l, t) : c \in cores, l \in 0..MaxPad, t \in 0..MaxPad}

JsonTextBA ==
    <<Ch.lbrace, Ch.quote, Ch.b, Ch.quote, Ch.colon, Ch.d2, Ch.comma, Ch.sp,
      Ch.quote, Ch.a, Ch.quote, Ch.colon, Ch.d1, Ch.rbrace>>

\* Input strings: texts, hexadecimal and base64 strings (well formed or
\* not), JSON texts and paths.
CalculationCores ==
    { <<>>, <<Ch.a>>, <<Ch.a, Ch.b>>, <<Ch.z, Ch.z>>, <<Ch.d1, Ch.d2>>,
      <<Ch.Y, Ch.Q, Ch.eq, Ch.eq>>, <<Ch.Y, Ch.Q, Ch.eq>>, JsonTextBA,
      <<Ch.f>>, <<Ch.d>>, <<Ch.g>>, <<Ch.eacute>> }

ComparisonCores ==
    { <<Ch.a>>, <<Ch.a, Ch.B>>, <<Ch.Y, Ch.Q, Ch.eq, Ch.eq>>, <<Ch.f>>, <<Ch.m>> }

BatchItems ==
    { <<Ch.a>>, <<Ch.sp, Ch.a>>, <<Ch.d1, Ch.d2>>, <<Ch.z, Ch.z>>, <<Ch.f>>,
      <<Ch.Y, Ch.Q, Ch.eq, Ch.eq>> }

RECURSIVE ListsUpTo(_, _)
ListsUpTo(items, n) ==
    IF n = 0 THEN {<<>>}
    ELSE LET shorter == ListsUpTo(items, n - 1)
         IN  shorter \cup {Append(l, x) : l \in {k \in shorter : Len(k) = n - 1}, x \in items}

\* the fields of a request as the caller supplies them
Request(algorithm, input_type, input_data, normalization, response_format, expected_hash, input_list) ==
    [ algorithm |-> algorithm, input_type |-> input_type, input_data |-> input_data,
      normalization |-> normalization, response_format |-> response_format,
      expected_hash |-> expected_hash, input_list |-> input_list ]

NoRequest == Request("", "", <<>>, "", "", <<>>, <<>>)

\* The digest a comparison request computes, <<>> when it computes none.
DigestOf(algorithm, input_type, input_data, normalization) ==
    LET steps == HashSteps(algorithm, input_type, strip(input_data), normalization)
    IN  IF steps.ok THEN steps.hash ELSE <<>>

\* Expected hashes around a digest: the digest, in upper case, between white
\* space, with its last digit changed, another hexadecimal string, and a
\* string that is not hexadecimal.
ExpectedHashes(digest) ==
    { digest, upper(digest), <<Ch.sp>> \o upper(digest) \o <<Ch.lf>>,
      IF digest = <<>> THEN <<Ch.d0>>
      ELSE [digest EXCEPT ![Len(digest)] = IF @ = Ch.d0 THEN Ch.d1 ELSE Ch.d0],
      <<Ch.d0, Ch.d0>>, <<Ch.x, Ch.z>> }

\* the longest list of servers mcp.json starts with
MaxServers == 2

\* the calls of the backup and restore scripts in one run
MaxCalls == 3

\* the largest magnitude of an operand of basic_operation
MaxOperand == 2

\* every str of at most n characters of the alphabet
StringsUpTo(alphabet, n) == UNION {[1..k -> alphabet] : k \in 0..n}

\* The characters normalize_text is tried on.
TextAlphabet == {Ch.a, Ch.sp, Ch.lf, Ch.cr, Ch.tab}

\* JSON values: an object of at most MaxKeys members, each member a str,
\* null or an object of two members.
JsonKeys == {<<Ch.a>>, <<Ch.b>>, <<Ch.B>>}

MemberValues ==
    { JsonStr(<<Ch.eacute>>), JsonAtom("null"),
      JsonObject(<< <<<<Ch.b>>, JsonInt(20)>>, <<<<Ch.a>>, JsonAtom("true")>> >>) }

\* the members of an object with the keys of `keys`, in some order
RECURSIVE ItemsOf(_, _)
ItemsOf(keys, value) ==
    IF keys = {} THEN <<>>
    ELSE LET k == CHOOSE x \in keys : TRUE
         IN  <<<<k, value[k]>>>> \o ItemsOf(keys \ {k}, value)

JsonObjects ==
    { JsonObject(ItemsOf(DOMAIN value, value)) :
        value \in UNION {[keys -> MemberValues] :
                            keys \in {k \in SUBSET JsonKeys : Cardinality(k) <= MaxKeys}} }

\* the ways to write a value down: the order of the members of every object
\* (a ranking of their places) and the white space between the tokens
Rankings == {r \in [1..MaxKeys -> 1..MaxKeys] : \A i, j \in 1..MaxKeys : r[i] = r[j] => i = j}

Layouts == [rank : Rankings, space : {<<>>, <<Ch.lf, Ch.sp>>}]

\* the places 1..n ordered by rank (places beyond the ranking keep their order)
RankOf(rank, i) == IF i \in DOMAIN rank THEN rank[i] ELSE Len(rank) + i

RECURSIVE PlacesByRank(_, _)
PlacesByRank(places, rank) ==
    IF places = {} THEN <<>>
    ELSE LET first == CHOOSE i \in places :
                          \A j \in places : RankOf(rank, i) <= RankOf(rank, j)
         IN  <<first>> \o PlacesByRank(places \ {first}, rank)

\* The calls whose responses are formatted: every input type and
\* normalization under three algorithms, json as the response format.
FormatAlgorithms == {"crc32", "md5", "sha512"}

FormatData ==
    { <<>>, <<Ch.a>>, <<Ch.eacute>>, <<Ch.d1, Ch.d2>>, <<Ch.Y, Ch.Q, Ch.eq, Ch.eq>>,
      JsonTextBA, <<Ch.f>> }

\* the responses of the calls of a tool that succeed
Successful(name, outcomes) ==
    { [name |-> name, response |-> o.response] :
        o \in {x \in outcomes : ~x.raised /\ ~x.response.error} }

ModelsBuilt(models) == {m.val : m \in {x \in models : x.ok}}

FormatCalculations ==
    Successful("calculation",
        { calculate_hash_wrapper(params) :
            params \in ModelsBuilt(
                { HashCalculationInput(Request(a, t, d, n, "json", <<>>, <<>>)) :
                    a \in FormatAlgorithms, t \in InputType, d \in FormatData,
                    n \in NormalizationType }) })

FormatExpected ==
    {DigestOf(a, "text", <<Ch.a>>, "none") : a \in FormatAlgorithms}
    \cup {<<Ch.d0, Ch.d0>>}

FormatComparisons ==
    Successful("comparison",
        { compare_hash_wrapper(params) :
            params \in ModelsBuilt(
                { HashComparisonInput(Request(a, t, d, "none", "json", e, <<>>)) :
                    a \in FormatAlgorithms, t \in InputType, d \in FormatData,
                    e \in FormatExpected }) })

FormatBatches ==
    Successful("batch",
        { batch_hash_calculation(Request(a, t, <<>>, n, "json", <<>>, l)) :
            a \in FormatAlgorithms, t \in InputType, n \in {"none", "text"},
            l \in ListsUpTo({<<Ch.a>>, <<Ch.d1, Ch.d2>>, <<Ch.f>>}, MaxList) })

\* The servers of mcp.json: two names and a server without a name, two
\* servers of the name a that differ in their command.
ServerNames == {JsonStr(<<Ch.a>>), JsonStr(<<Ch.b>>)}

Server(name, command) ==
    JsonObject((IF name = None THEN <<>> ELSE <<Item("name", name)>>)
               \o <<Item("command", JsonStr(command))>>)

ServerConfigs ==
    { Server(JsonStr(<<Ch.a>>), <<Ch.x>>), Server(JsonStr(<<Ch.a>>), <<Ch.z>>),
      Server(JsonStr(<<Ch.b>>), <<Ch.x>>), Server(None, <<Ch.x>>) }

\* the configs: mcp_servers alone, before or behind another top-level key,
\* or no mcp_servers at all
ConfigsOf(servers) ==
    { JsonObject(<<Item("mcp_servers", JsonArray(servers))>>),
      JsonObject(<<Item("version", JsonInt(1)), Item("mcp_servers", JsonArray(servers))>>),
      JsonObject(<<Item("mcp_servers", JsonArray(servers)), Item("version", JsonInt(1))>>) }

\* the servers mcp.json starts with have a name
NamedServers == {server \in ServerConfigs : Get(server, "name", None) # None}

McpConfigs ==
    UNION {ConfigsOf(servers) : servers \in ListsUpTo(NamedServers, MaxServers)}
    \cup {JsonObject(<<>>), JsonObject(<<Item("version", JsonInt(1))>>),
          JsonArray(<<JsonInt(1)>>)}

\* the files: the configs as json.dump writes them, some of them on one line
\* with sorted keys, a text that is no JSON, no file and an unreadable file
McpFiles ==
    {TextFile(json_dumps_indent(config, 0, FALSE)) : config \in McpConfigs}
    \cup {TextFile(json_dumps(config)) :
              config \in UNION {ConfigsOf(servers) : servers \in ListsUpTo(ServerConfigs, 1)}}
    \cup {TextFile(<<Ch.x>>), NoFile, Unreadable}

\* what the file system does at a save
Disk == {"ok", "denied", "full"}

\* The instants of local time at which the scripts run, indices of strftime.
Instants == {1, 2}

\* The contents of config.json and mcp.json, and what the user answers.
OriginalContents == {Bytes(<<Ch.b, Ch.b>>)}

Answers == {<<Ch.sp, Ch.Y, Ch.sp>>, <<Ch.x>>}

\* the copy of a restore that fails
Faults == {"none", "save", "restore"}

\* the same for restore_from_backup, with the file it fails for
FileFaults ==
    {[kind |-> "none", name |-> <<>>]}
    \cup {[kind |-> kind, name |-> files_to_backup[i]] :
              kind \in Faults \ {"none"}, i \in 1..Len(files_to_backup)}

\* the operands and the operations, one of them unknown, of basic_operation
Operands == (-MaxOperand)..MaxOperand

Operations == OperationType \cup {"modulo"}

\* the working directories the scripts start in
WorkingDirectories ==
    { NoFiles,
      WriteFile(NoFiles, Literal["config.json"], Bytes(<<Ch.a>>)),
      WriteFile(WriteFile(NoFiles, Literal["config.json"], Bytes(<<Ch.a>>)),
                Literal["mcp.json"], Bytes(<<Ch.a>>)) }

RECURSIVE WriteJson(_, _)
RECURSIVE WriteMembers(_, _, _)

\* a JSON text of value v in the given layout
WriteJson(v, layout) ==
    CASE v.t = "int" -> IntRepr(v.n)
      [] v.t = "str" -> <<Ch.quote>> \o v.s \o <<Ch.quote>>
      [] v.t = "object" ->
            <<Ch.lbrace>> \o layout.space
            \o WriteMembers(v.kids, PlacesByRank(1..Len(v.kids), layout.rank), layout)
            \o <<Ch.rbrace>>
      [] OTHER -> json_dumps(v)

WriteMembers(items, places, layout) ==
    IF places = <<>> THEN <<>>
    ELSE <<Ch.quote>> \o items[places[1]][1] \o <<Ch.quote>> \o layout.space
         \o <<Ch.colon>> \o layout.space
         \o WriteJson(items[places[1]][2], layout) \o layout.space
         \o (IF Len(places) > 1
             THEN <<Ch.comma>> \o layout.space
                  \o WriteMembers(items, Tail(places), layout)
             ELSE <<>>)

(***************************************************************************)
(* State                                                                   *)
(***************************************************************************)
VARIABLES
    pc,          \* "idle", "validated", "rejected", "returned" or "raised"
    tool,        \* the tool of the call: "calculation", "comparison", "batch"
    raw,         \* the request as the caller supplied it
    params,      \* the pydantic model built from it
    response,    \* what the tool returned
    reads,       \* inputs read by the call so far
    digests,     \* digests computed by the call so far
    text_pc,     \* normalize_text: "idle", "called" or "returned"
    text_in,     \* normalize_text: the argument
    text_out,    \* normalize_text: the bytes returned
    json_pc,     \* normalize_json: "idle", "called", "normalized" or "hashed"
    json_in,     \* normalize_json: two JSON texts of one value
    json_out,    \* normalize_json: what it returned or raised for each text
    json_hash,   \* the digests of the two results under one algorithm
    format_pc,   \* _format_result_json: "idle", "called" or "returned"
    format_in,   \* _format_result_json: the tool, its response and the details passed
    format_out,  \* _format_result_json: the str returned
    mcp_json,    \* toggle_mcp.py: the file mcp.json
    mcp_call,    \* toggle_mcp.py: the last call, its result and the file before it
    cwd,         \* the files of the working directory
    backup_dir,  \* the directory backup of the working directory
    clock,       \* the instant of local time, an index of strftime
    last_backup, \* the timestamp of the backup taken last, <<>> before the first
    script,      \* the last call of backup_config.py or restore_config.py
    basic        \* the last call of basic_operation and what it returned

hashVars == <<pc, tool, raw, params, response, reads, digests>>

textVars == <<text_pc, text_in, text_out>>

jsonVars == <<json_pc, json_in, json_out, json_hash>>

formatVars == <<format_pc, format_in, format_out>>

mcpVars == <<mcp_json, mcp_call>>

backupVars == <<cwd, backup_dir, clock, last_backup, script>>

basicVars == <<basic>>

vars == <<hashVars, textVars, jsonVars, formatVars, mcpVars, backupVars, basicVars>>

\* the variables an action of one part of the model leaves alone
restOfHash == <<textVars, jsonVars, formatVars, mcpVars, backupVars, basicVars>>

restOfText == <<hashVars, jsonVars, formatVars, mcpVars, backupVars, basicVars>>

restOfJson == <<hashVars, textVars, formatVars, mcpVars, backupVars, basicVars>>

restOfFormat == <<hashVars, textVars, jsonVars, mcpVars, backupVars, basicVars>>

restOfMcp == <<hashVars, textVars, jsonVars, formatVars, backupVars, basicVars>>

restOfBackup == <<hashVars, textVars, jsonVars, formatVars, mcpVars, basicVars>>

restOfBasic == <<hashVars, textVars, jsonVars, formatVars, mcpVars, backupVars>>

HashInit ==
    /\ pc = "idle"
    /\ tool = ""
    /\ raw = NoRequest
    /\ params = NoRequest
    /\ response = ErrorResponse("")
    /\ reads = 0
    /\ digests = 0

TextIdle == text_pc = "idle" /\ text_in = <<>> /\ text_out = <<>>

JsonIdle == json_pc = "idle" /\ json_in = <<>> /\ json_out = <<>> /\ json_hash = <<>>

FormatIdle == format_pc = "idle" /\ format_in = <<>> /\ format_out = <<>>

\* no call of toggle_mcp.py yet
NoCall == [op |-> "none", arg |-> None, result |-> "", before |-> NoFile, writes |-> 0]

McpIdle == mcp_json = NoFile /\ mcp_call = NoCall

\* no call of backup_config.py or restore_config.py yet, or the files were
\* changed since
NoScript ==
    [ op |-> "none", args |-> <<>>, result |-> "", timestamp |-> <<>>,
      directory |-> NoFiles, dir |-> NoDirectory, trace |-> <<>>, chosen |-> <<>>,
      latest |-> <<>> ]

\* no call of basic_operation yet
NoBasic ==
    [ operation |-> "", a |-> 0, b |-> 0, failure |-> "",
      response |-> ErrorResponse("") ]

BasicIdle == basic = NoBasic

BackupIdle ==
    /\ cwd = NoFiles
    /\ backup_dir = NoDirectory
    /\ clock = 1
    /\ last_backup = <<>>
    /\ script = NoScript

(***************************************************************************)
(* The hash tools                                                          *)
(***************************************************************************)
\* What a call leaves in the state.
Finish(outcome) ==
    /\ pc' = IF outcome.raised THEN "raised" ELSE "returned"
    /\ response' = outcome.response
    /\ reads' = outcome.reads
    /\ digests' = outcome.digests

\* The caller builds HashCalculationInput(...) from its fields.
BuildModel(name, request, model) ==
    /\ tool' = name
    /\ raw' = request
    /\ pc' = IF model.ok THEN "validated" ELSE "rejected"
    /\ params' = IF model.ok THEN model.val ELSE NoRequest
    /\ response' = ErrorResponse(model.msg)
    /\ UNCHANGED <<reads, digests, restOfHash>>

NewHashCalculationInput ==
    /\ pc = "idle"
    /\ \E algorithm \in AlgorithmInputs, input_type \in InputTypeInputs,
          input_data \in Paddings(CalculationCores),
          normalization \in NormalizationInputs, response_format \in ResponseFormat :
           BuildModel("calculation",
               Request(algorithm, input_type, input_data, normalization,
                       response_format, <<>>, <<>>),
               HashCalculationInput(
                   Request(algorithm, input_type, input_data, normalization,
                           response_format, <<>>, <<>>)))

NewHashComparisonInput ==
    /\ pc = "idle"
    /\ \E algorithm \in AlgorithmInputs, input_type \in InputTypeInputs,
          input_data \in Paddings(ComparisonCores),
          normalization \in NormalizationInputs, response_format \in ResponseFormat :
           \E expected_hash \in
                 ExpectedHashes(DigestOf(algorithm, input_type, input_data,
                                         normalization)) :
               BuildModel("comparison",
                   Request(algorithm, input_type, input_data, normalization,
                           response_format, expected_hash, <<>>),
                   HashComparisonInput(
                       Request(algorithm, input_type, input_data, normalization,
                               response_format, expected_hash, <<>>)))

CallCalculateHashWrapper ==
    /\ pc = "validated"
    /\ tool = "calculation"
    /\ Finish(calculate_hash_wrapper(params))
    /\ UNCHANGED <<tool, raw, params, restOfHash>>

CallCompareHashWrapper ==
    /\ pc = "validated"
    /\ tool = "comparison"
    /\ Finish(compare_hash_wrapper(params))
    /\ UNCHANGED <<tool, raw, params, restOfHash>>

CallBatch(request) ==
    /\ tool' = "batch"
    /\ raw' = request
    /\ params' = request
    /\ Finish(batch_hash_calculation(request))

CallBatchHashCalculation ==
    /\ pc = "idle"
    /\ \E algorithm \in AlgorithmInputs, input_type \in InputTypeInputs,
          input_list \in ListsUpTo(BatchItems, MaxList),
          normalization \in NormalizationInputs, response_format \in ResponseFormat :
           CallBatch(Request(algorithm, input_type, <<>>, normalization,
                             response_format, <<>>, input_list))
    /\ UNCHANGED restOfHash

Init ==
    HashInit /\ TextIdle /\ JsonIdle /\ FormatIdle /\ McpIdle /\ BackupIdle /\ BasicIdle

Next ==
    \/ NewHashCalculationInput
    \/ NewHashComparisonInput
    \/ CallCalculateHashWrapper
    \/ CallCompareHashWrapper
    \/ CallBatchHashCalculation

Spec == Init /\ [][Next]_vars

(***************************************************************************)
(* Properties of the hash tools                                            *)
(***************************************************************************)
\* the three statements "get the input, normalize it, hash it" on the
\* request the tool was called with
ToolSteps ==
    HashSteps(params.algorithm, params.input_type, params.input_data,
              params.normalization)

\* the same statements on item i of a batch
ItemSteps(i) ==
    HashSteps(params.algorithm, params.input_type, params.input_list[i],
              params.normalization)

\* obtaining the input bytes, normalizing or hashing fails for the request
StepFailed ==
    IF tool = "batch"
    THEN \E i \in 1..Len(params.input_list) : ~ItemSteps(i).ok
    ELSE ~ToolSteps.ok

\* the enumeration arguments are members of their enumerations
EnumArguments ==
    /\ params.algorithm \in HashAlgorithm
    /\ params.input_type \in InputType
    /\ params.normalization \in NormalizationType

\* C1: calculate_hash_wrapper, compare_hash_wrapper and
\* batch_hash_calculation never raise: a call whose input cannot be obtained,
\* normalized or hashed returns a string that starts with "Error: ", and a
\* call on which nothing fails returns a formatted result.
C1_ToolsNeverRaise ==
    /\ pc # "raised"
    /\ pc = "returned" =>
          /\ response.error => response = ErrorResponse(response.message)
          /\ ~response.error => response.format \in ResponseFormat
          /\ StepFailed => response.error /\ response.prefix = "Error: "
          /\ (~StepFailed /\ EnumArguments) => ~response.error

\* C1 happens: a calculation on a file that cannot be read has returned the
\* error string.
C1_ErrorReturned ==
    /\ pc = "returned"
    /\ tool = "calculation"
    /\ params.input_type = "file"
    /\ response.error
    /\ response.prefix = "Error: "
    /\ response.message = "[Errno 13] Permission denied"

\* what the tool of the call returns for the same request in the given format
OutcomeIn(format) ==
    CASE tool = "calculation" ->
             calculate_hash_wrapper([params EXCEPT !.response_format = format])
      [] tool = "comparison" ->
             compare_hash_wrapper([params EXCEPT !.response_format = format])
      [] tool = "batch" ->
             batch_hash_calculation([params EXCEPT !.response_format = format])

\* C23: the error response of the hash tools does not depend on the
\* response format: a request that made the tool return an error makes it
\* return the same plain string "Error: <message>" in markdown and in json,
\* and that string is no record of operation, result and details.
C23_ErrorSameInBothFormats ==
    (pc = "returned" /\ response.error) =>
        /\ response.prefix = "Error: "
        /\ response.format = ""
        /\ response.operation = "" /\ response.result = <<>> /\ response.details = <<>>
        /\ \A format \in ResponseFormat :
               /\ ~OutcomeIn(format).raised
               /\ OutcomeIn(format).response = response

\* C23 happens: a calculation asked for json on a hexadecimal input that
\* cannot be decoded returned the error string.
C23_ErrorForJsonRequest ==
    /\ pc = "returned"
    /\ tool = "calculation"
    /\ params.response_format = "json"
    /\ params.input_type = "hex"
    /\ response.error
    /\ response.prefix = "Error: "
    /\ response.format = ""

\* C2: in batch_hash_calculation an error on one item of input_list is
\* captured for that item only: the batch is not aborted and every other item
\* has its result entry in the response.
C2_BatchIsolatesItemErrors ==
    (pc = "returned" /\ tool = "batch" /\ EnumArguments /\ StepFailed) =>
        \A i \in 1..Len(params.input_list) :
           ItemSteps(i).ok =>
              \E j \in 1..Len(response.result) :
                 /\ response.result[j].input = params.input_list[i]
                 /\ response.result[j].hash = ItemSteps(i).hash

\* C2 does not hold here: the second item of a batch of two cannot be decoded,
\* and the response is the error string alone, after the first item was hashed.
C2_BatchAborted ==
    /\ pc = "returned"
    /\ tool = "batch"
    /\ params.algorithm = "md5"
    /\ params.input_type = "hex"
    /\ params.normalization = "none"
    /\ params.input_list = <<<<Ch.d1, Ch.d2>>, <<Ch.z, Ch.z>>>>
    /\ response.error
    /\ response.result = <<>>
    /\ digests = 1

\* what a single hash calculation reports for item i of a batch: the response
\* of calculate_hash_wrapper, or the rejection of HashCalculationInput
SingleResponse(request, model) ==
    IF model.ok THEN calculate_hash_wrapper(model.val).response
    ELSE ErrorResponse(model.msg)

SingleCalculation(i) ==
    SingleResponse(params,
        HashCalculationInput([params EXCEPT !.input_data = params.input_list[i],
                                            !.input_list = <<>>]))

\* C3: for an input_list of N items that can all be hashed the batch returns
\* N result entries in input order (total_inputs = N), and the hash of entry
\* i is the digest a single hash calculation reports for the same algorithm,
\* input_type, normalization and input string.
C3_BatchMatchesSingle ==
    (pc = "returned" /\ tool = "batch" /\ ~response.error) =>
        /\ Len(response.result) = Len(params.input_list)
        /\ response.details.total_inputs = Len(params.input_list)
        /\ \A i \in 1..Len(params.input_list) :
              /\ response.result[i].input = params.input_list[i]
              /\ ~SingleCalculation(i).error
              /\ response.result[i].hash = SingleCalculation(i).result

\* C3 does not hold here: the batch hashes the text " a" as it stands, the
\* single calculation hashes it stripped.
C3_BatchHashesUnstripped ==
    /\ pc = "returned"
    /\ tool = "batch"
    /\ params.input_type = "text"
    /\ params.normalization = "none"
    /\ params.algorithm = "crc32"
    /\ params.input_list = <<<<Ch.sp, Ch.a>>>>
    /\ ~response.error
    /\ response.result[1].hash = calculate_hash(<<32, 97>>, "crc32").val
    /\ SingleCalculation(1).result = calculate_hash(<<97>>, "crc32").val
    /\ response.result[1].hash # SingleCalculation(1).result

\* the input strings of the request as the caller gave them
RawInputs == IF tool = "batch" THEN raw.input_list ELSE <<raw.input_data>>

\* the request is one that validation is to reject: an enumeration field
\* outside its set, a file that does not exist, malformed base64 or hex
RequestInvalid ==
    \/ raw.algorithm \notin HashAlgorithm
    \/ raw.input_type \notin InputType
    \/ raw.normalization \notin NormalizationType
    \/ \E i \in 1..Len(RawInputs) :
          ~validate_input_data(strip(RawInputs[i]), raw.input_type).ok

\* C4: for each of the three hash tools validation comes before computation:
\* an invalid request is rejected before any input bytes are read and before
\* any digest is computed.
C4_ValidationBeforeComputation ==
    (pc \in {"rejected", "returned", "raised"} /\ RequestInvalid) =>
        /\ reads = 0
        /\ digests = 0
        /\ pc = "rejected" \/ response.error

\* C4 does not hold here: a batch with a normalization outside the enumeration
\* has read and hashed its item when it fails.
C4_BatchComputesFirst ==
    /\ pc = "returned"
    /\ tool = "batch"
    /\ raw.normalization \notin NormalizationType
    /\ raw.algorithm \in HashAlgorithm
    /\ raw.input_type = "text"
    /\ Len(raw.input_list) = 1
    /\ response.error
    /\ reads = 1
    /\ digests = 1

\* C5: validation is sufficient for decoding: for a HashCalculationInput that
\* passed validate_input_data, get_input_data produces the bytes of every hex
\* and every base64 string, so calculate_hash_wrapper returns no "Error: "
\* caused by the encoding of its input.
C5_ValidatedInputDecodes ==
    (pc = "returned" /\ tool = "calculation"
        /\ params.input_type \in {"base64", "hex"}) =>
        /\ get_input_data(params.input_type, params.input_data).ok
        /\ response.error => ToolSteps.reads = 1

\* C5 does not hold here: the hex string "f" passed validation and
\* bytes.fromhex raised on it.
C5_OddHexAccepted ==
    /\ pc = "returned"
    /\ tool = "calculation"
    /\ params.input_type = "hex"
    /\ params.input_data = <<Ch.f>>
    /\ validate_input_data(params.input_data, "hex").ok
    /\ ~fromhex(params.input_data).ok
    /\ response.error
    /\ reads = 0

\* C6: for text input with normalization none the digest a hash calculation
\* reports is the digest of the UTF-8 bytes of the input_data string the
\* caller supplied, white space before and behind it included, and
\* input_size_bytes is the length of those bytes.
C6_TextHashedAsSupplied ==
    (pc = "returned" /\ tool = "calculation" /\ raw.input_type = "text"
        /\ raw.normalization = "none" /\ ~response.error) =>
        /\ response.result = calculate_hash(encode_utf8(raw.input_data), raw.algorithm).val
        /\ response.details.input_size_bytes = Len(encode_utf8(raw.input_data))

\* C6 does not hold here: the text " a" was hashed as "a", with
\* input_size_bytes 1.
C6_TextStripped ==
    /\ pc = "returned"
    /\ tool = "calculation"
    /\ raw.input_type = "text"
    /\ raw.normalization = "none"
    /\ raw.algorithm = "crc32"
    /\ raw.input_data = <<Ch.sp, Ch.a>>
    /\ ~response.error
    /\ response.result = calculate_hash(<<97>>, "crc32").val
    /\ response.result # calculate_hash(<<32, 97>>, "crc32").val
    /\ response.details.input_size_bytes = 1

\* a comparison has returned its result
Compared == pc = "returned" /\ tool = "comparison" /\ ~response.error

\* C7: hash comparison is case-insensitive: when expected_hash differs from
\* the computed digest only in letter case and in white space around it,
\* compare_hash_wrapper reports match = true, and the response carries the
\* calculated and the expected digest.
C7_ComparisonIgnoresCase ==
    (pc = "returned" /\ tool = "comparison" /\ ToolSteps.ok
        /\ lower(strip(raw.expected_hash)) = ToolSteps.hash) =>
        /\ ~response.error
        /\ response.result.match
        /\ response.details.match
        /\ response.result.calculated_hash = ToolSteps.hash
        /\ response.result.expected_hash = ToolSteps.hash

\* C7 happens: the expected hash is the digest in upper case between white
\* space, not the digest itself, and the comparison reports a match.
C7_UpperCaseMatched ==
    /\ Compared
    /\ raw.expected_hash # response.result.calculated_hash
    /\ upper(response.result.calculated_hash) # response.result.calculated_hash
    /\ raw.expected_hash
          = <<Ch.sp>> \o upper(response.result.calculated_hash) \o <<Ch.lf>>
    /\ response.result.match

ResponseDigests ==
    CASE tool = "calculation" -> {response.result}
      [] tool = "comparison" -> {response.result.calculated_hash}
      [] OTHER -> {response.result[i].hash : i \in 1..Len(response.result)}

\* C11: for every algorithm and every input calculate_hash returns lowercase
\* hexadecimal characters only, of a length fixed per algorithm; the crc32
\* value is rendered as exactly 8 characters, padded with zeros on the left.
C11_DigestFixedWidthLowerHex ==
    (pc = "returned" /\ ~response.error) =>
        \A digest \in ResponseDigests :
           /\ \A i \in 1..Len(digest) : IsLowerHex(digest[i])
           /\ Len(digest) =
                 CASE params.algorithm = "crc32" -> 8
                   [] params.algorithm = "md5" -> 32
                   [] params.algorithm = "sha1" -> 40
                   [] params.algorithm \in {"sha256", "sha3_256"} -> 64
                   [] params.algorithm \in {"sha512", "sha3_512", "blake2b"} -> 128

\* C11 happens: the crc32 of the empty text, the value 0, is reported as eight
\* zeros.
C11_ZeroPadded ==
    /\ pc = "returned"
    /\ tool = "calculation"
    /\ params.algorithm = "crc32"
    /\ params.input_type = "text"
    /\ params.input_data = <<>>
    /\ response.result = <<48, 48, 48, 48, 48, 48, 48, 48>>

(***************************************************************************)
(* normalize_text on every short str                                       *)
(***************************************************************************)
TextInit ==
    /\ HashInit
    /\ JsonIdle
    /\ FormatIdle
    /\ McpIdle
    /\ BackupIdle
    /\ BasicIdle
    /\ text_pc = "called"
    /\ text_in \in StringsUpTo(TextAlphabet, MaxTextLen)
    /\ text_out = <<>>

CallNormalizeText ==
    /\ text_pc = "called"
    /\ text_pc' = "returned"
    /\ text_out' = normalize_text(text_in)
    /\ UNCHANGED <<text_in, restOfText>>

TextNext == CallNormalizeText

SpecText == TextInit /\ [][TextNext]_vars

\* the str behind the bytes normalize_text returned
TextOut == decode_utf8_ignore(text_out)

\* s holds a run of n characters c
HasRun(s, c, n) ==
    \E i \in 1..Len(s) : i + n - 1 <= Len(s) /\ \A k \in i..(i + n - 1) : s[k] = c

\* C10: the output of normalize_text has no white space at its start or its
\* end, no carriage return, no run of three or more newlines and no run of
\* two or more spaces.
C10_TextNormalized ==
    text_pc = "returned" =>
        /\ text_out = encode_utf8(TextOut)
        /\ TextOut # <<>> => ~IsSpace(TextOut[1]) /\ ~IsSpace(TextOut[Len(TextOut)])
        /\ \A i \in 1..Len(TextOut) : TextOut[i] # Ch.cr
        /\ ~HasRun(TextOut, Ch.lf, 3)
        /\ ~HasRun(TextOut, Ch.sp, 2)

\* C10 happens: the carriage returns of a str, one of them on its own, have
\* become newlines.
C10_LineEndingsRewritten ==
    /\ text_pc = "returned"
    /\ text_in = <<Ch.a, Ch.cr, Ch.cr, Ch.lf, Ch.a>>
    /\ text_out = <<97, 10, 10, 97>>

(***************************************************************************)
(* _format_result_json on the responses of the three tools                 *)
(***************************************************************************)
\* The formatter is called with the details of the tool, with None or with
\* an empty dict.
FormatInit ==
    /\ HashInit
    /\ TextIdle
    /\ JsonIdle
    /\ McpIdle
    /\ BackupIdle
    /\ BasicIdle
    /\ format_pc = "called"
    /\ \E call \in FormatCalculations \cup FormatComparisons \cup FormatBatches,
          details \in {"dict", "None", "empty"} :
           format_in = [name |-> call.name, response |-> call.response,
                        details |-> details]
    /\ format_out = <<>>

CallFormatResultJson ==
    /\ format_pc = "called"
    /\ format_pc' = "returned"
    /\ format_out' =
           format_result_json(
               FString(format_in.response.operation),
               ResultValue(format_in.name, format_in.response.result),
               CASE format_in.details = "dict" ->
                        DetailsDict(format_in.name, format_in.response.details)
                 [] format_in.details = "None" -> None
                 [] format_in.details = "empty" -> JsonObject(<<>>))
    /\ UNCHANGED <<format_in, restOfFormat>>

FormatNext == CallFormatResultJson

SpecFormat == FormatInit /\ [][FormatNext]_vars

\* the value of the member `key` of a parsed object
Member(object, key) ==
    object.kids[CHOOSE i \in 1..Len(object.kids) : object.kids[i][1] = Literal[key]][2]

\* the parsed text is an object of exactly the members operation, result
\* and details
ThreeFields(parsed) ==
    /\ parsed.ok
    /\ parsed.val.t = "object"
    /\ Len(parsed.val.kids) = 3
    /\ {parsed.val.kids[i][1] : i \in 1..3}
           = {Literal["operation"], Literal["result"], Literal["details"]}
    /\ Member(parsed.val, "operation").t = "str"
    /\ Member(parsed.val, "details").t = "object"

\* the sizes, counts and flags of the response are JSON numbers and booleans
\* of the values the tool computed
ScalarsKept(name, reply, result, details) ==
    CASE name = "calculation" ->
             /\ Member(details, "input_size_bytes")
                    = JsonInt(reply.details.input_size_bytes)
             /\ Member(details, "normalized_size_bytes")
                    = JsonInt(reply.details.normalized_size_bytes)
      [] name = "comparison" ->
             /\ Member(result, "match") = JsonBool(reply.result.match)
             /\ Member(details, "match") = JsonBool(reply.details.match)
             /\ Member(details, "input_size_bytes")
                    = JsonInt(reply.details.input_size_bytes)
      [] name = "batch" ->
             /\ Member(details, "total_inputs") = JsonInt(reply.details.total_inputs)
             /\ Len(Member(details, "inputs").kids) = Len(reply.details.inputs)
             /\ \A i \in 1..Len(reply.details.inputs) :
                    Member(Member(details, "inputs").kids[i], "input_size_bytes")
                        = JsonInt(reply.details.inputs[i].input_size_bytes)

FormattedRecord(parsed) ==
    /\ ThreeFields(parsed)
    /\ format_in.details # "dict" => Member(parsed.val, "details").kids = <<>>
    /\ format_in.details = "dict" =>
           ScalarsKept(format_in.name, format_in.response,
                       Member(parsed.val, "result"), Member(parsed.val, "details"))

\* C13: the str _format_result_json returns for a successful calculation,
\* comparison or batch call parses to a record of exactly the fields
\* operation, result and details; details is an empty mapping when none is
\* given; input_size_bytes, total_inputs and match are numbers and booleans,
\* not strings.
C13_JsonResponseRecord ==
    format_pc = "returned" => FormattedRecord(json_loads(format_out))

\* C13 happens: a comparison that matched was formatted with its details and
\* the text starts with the operation member on a line of its own.
C13_ComparisonFormatted ==
    /\ format_pc = "returned"
    /\ format_in.name = "comparison"
    /\ format_in.details = "dict"
    /\ format_in.response.result.match
    /\ Len(format_out) > 20
    /\ format_out[1] = 123 /\ format_out[2] = 10 /\ format_out[5] = 34
    /\ format_out[6] = 111

(***************************************************************************)
(* toggle_mcp.py: calls of enable, disable and add on one mcp.json         *)
(***************************************************************************)
McpInit ==
    /\ HashInit
    /\ TextIdle
    /\ JsonIdle
    /\ FormatIdle
    /\ BackupIdle
    /\ BasicIdle
    /\ mcp_json \in McpFiles
    /\ mcp_call = NoCall

\* What a call leaves in the state.
McpCalled(op, arg, done) ==
    /\ mcp_json' = done.file
    /\ mcp_call' = [op |-> op, arg |-> arg, result |-> done.result,
                    before |-> mcp_json, writes |-> done.writes]
    /\ UNCHANGED restOfMcp

CallEnableMcpServer ==
    \E server_name \in ServerNames, disk \in Disk :
        McpCalled("enable", server_name, enable_mcp_server(server_name, disk, mcp_json))

CallDisableMcpServer ==
    \E server_name \in ServerNames, disk \in Disk :
        McpCalled("disable", server_name, disable_mcp_server(server_name, disk, mcp_json))

CallAddMcpServer ==
    \E server_config \in ServerConfigs, disk \in Disk :
        McpCalled("add", server_config, add_mcp_server(server_config, disk, mcp_json))

McpNext == CallEnableMcpServer \/ CallDisableMcpServer \/ CallAddMcpServer

SpecMcp == McpInit /\ [][McpNext]_vars

\* the servers of a config, none when it has no mcp_servers
ServersOf(config) ==
    IF config.t = "object" THEN Get(config, "mcp_servers", JsonArray(<<>>)).kids ELSE <<>>

\* the top-level items of a config apart from mcp_servers
OtherItems(config) ==
    SelectSeq(config.kids, LAMBDA item : item[1] # Literal["mcp_servers"])

\* after is before without the servers of the name
ServersRemoved(before, after, server_name) ==
    /\ after.t = "object"
    /\ ~NameFound(ServersOf(after), server_name)
    /\ ServersOf(after)
           = SelectSeq(ServersOf(before),
                       LAMBDA server : Get(server, "name", None) # server_name)
    /\ OtherItems(after) = OtherItems(before)

\* C14: after disable_mcp_server(name) returned True, mcp.json holds no server
\* of that name, every other server is still there in its original relative
\* order, and every other top-level key of the config is unchanged.
C14_DisableRemovesOnlyNamed ==
    (mcp_call.op = "disable" /\ mcp_call.result = "True") =>
        /\ mcp_json.kind = "file"
        /\ json_loads(mcp_json.text).ok
        /\ ServersRemoved(load_mcp_config(mcp_call.before), load_mcp_config(mcp_json),
                          mcp_call.arg)

\* C14 happens: both servers of the name a were removed from a config of
\* three servers with another top-level key, the two others stayed.
C14_TwoOfFourRemoved ==
    /\ mcp_call.op = "disable"
    /\ mcp_call.result = "True"
    /\ mcp_call.arg = JsonStr(<<Ch.a>>)
    /\ Len(ServersOf(load_mcp_config(mcp_call.before))) = 4
    /\ Len(ServersOf(load_mcp_config(mcp_json))) = 2
    /\ Len(OtherItems(load_mcp_config(mcp_json))) = 1

\* the names of the servers of a config are pairwise different
DistinctNames(config) ==
    \A i, j \in 1..Len(ServersOf(config)) :
        Get(ServersOf(config)[i], "name", None) = Get(ServersOf(config)[j], "name", None)
            => i = j

\* C15: add_mcp_server returns False and does not write mcp.json when a
\* server of the config's name exists; a call of add_mcp_server,
\* enable_mcp_server or disable_mcp_server on a file whose server names are
\* pairwise different leaves them pairwise different.
C15_NamesStayDistinct ==
    /\ (/\ mcp_call.op = "add"
        /\ NameFound(ServersOf(load_mcp_config(mcp_call.before)),
                     Get(mcp_call.arg, "name", None)))
           => /\ mcp_call.result = "False"
              /\ mcp_call.writes = 0
              /\ mcp_json = mcp_call.before
    /\ (mcp_call.op # "none" /\ DistinctNames(load_mcp_config(mcp_call.before)))
           => DistinctNames(load_mcp_config(mcp_json))

\* C15 happens: a second server of the name a was refused, and before that a
\* server was added to a config of distinct names.
C15_DuplicateRefused ==
    /\ mcp_call.op = "add"
    /\ mcp_call.result = "False"
    /\ mcp_call.writes = 0
    /\ mcp_call.arg = Server(JsonStr(<<Ch.a>>), <<Ch.z>>)
    /\ Len(ServersOf(load_mcp_config(mcp_call.before))) = 3
    /\ DistinctNames(load_mcp_config(mcp_call.before))
    /\ ServersOf(load_mcp_config(mcp_call.before))[3] = Server(JsonStr(<<Ch.a>>), <<Ch.x>>)

\* the call of enable_mcp_server left the JSON value of mcp.json as it was:
\* behind True the file holds the value it held, and a name that is not in
\* the config is not reported as enabled and the file is not written
EnableKeepsConfig ==
    mcp_call.op = "enable" =>
        /\ mcp_call.result = "True"
               => /\ mcp_json.kind = "file"
                  /\ load_mcp_config(mcp_json) = load_mcp_config(mcp_call.before)
                  /\ NameFound(ServersOf(load_mcp_config(mcp_call.before)), mcp_call.arg)
        /\ ~NameFound(ServersOf(load_mcp_config(mcp_call.before)), mcp_call.arg)
               => /\ mcp_call.result # "True"
                  /\ mcp_call.writes = 0
                  /\ mcp_json = mcp_call.before

\* an enable_mcp_server of the name that the call before it, a
\* disable_mcp_server that returned True, removed: it returns False and the
\* file stays as the disable left it
EnableAfterDisable ==
    (/\ mcp_call.op = "disable"
     /\ mcp_call.result = "True"
     /\ mcp_call'.op = "enable"
     /\ mcp_call'.arg = mcp_call.arg)
        => /\ mcp_call'.result = "False"
           /\ mcp_json' = mcp_json
           /\ ~NameFound(ServersOf(load_mcp_config(mcp_json')), mcp_call.arg)

\* C24: enable_mcp_server never changes the configuration: when it returns
\* True (name found) and when it returns False (name not found) the JSON
\* value in mcp.json is the same before and after the call, and a server
\* removed by disable_mcp_server is not brought back by an enable_mcp_server
\* of the same name.
C24_EnableChangesNothing == []EnableKeepsConfig /\ [][EnableAfterDisable]_vars

\* C24 happens: enable_mcp_server returned True for a file written on one
\* line; it wrote the file anew, with another text and the same value of two
\* top-level keys.
C24_RewrittenWithSameValue ==
    /\ mcp_call.op = "enable"
    /\ mcp_call.result = "True"
    /\ mcp_call.writes = 1
    /\ mcp_json # mcp_call.before
    /\ load_mcp_config(mcp_json) = load_mcp_config(mcp_call.before)
    /\ Len(load_mcp_config(mcp_json).kids) = 2

(***************************************************************************)
(* backup_config.py and restore_config.py run in one working directory     *)
(***************************************************************************)
BackupInit ==
    /\ HashInit
    /\ TextIdle
    /\ JsonIdle
    /\ FormatIdle
    /\ McpIdle
    /\ BasicIdle
    /\ cwd \in WorkingDirectories
    /\ backup_dir = NoDirectory
    /\ clock \in Instants
    /\ last_backup = <<>>
    /\ script = NoScript

\* the calls made so far
Calls == IF script.op = "none" THEN 0 ELSE script.args[1]

\* between two calls: the files were edited, or it is later
Between(op) == [NoScript EXCEPT !.op = op, !.args = <<Calls>>]

\* Local time passes, or is set back (the end of daylight saving time, a
\* corrected clock).
ClockStep ==
    /\ script.op \in {"backup_config_files", "edited"}
    /\ \E instant \in Instants :
           /\ instant # clock
           /\ clock' = instant
    /\ script' = Between("later")
    /\ UNCHANGED <<cwd, backup_dir, last_backup, restOfBackup>>

\* The user, or a program, rewrites config.json or removes mcp.json.
EditOriginal ==
    /\ script.op = "backup_config_files"
    /\ \/ \E content \in OriginalContents :
              /\ IF Literal["config.json"] \in DOMAIN cwd
                 THEN cwd[Literal["config.json"]] # content ELSE TRUE
              /\ cwd' = WriteFile(cwd, Literal["config.json"], content)
       \/ /\ Literal["mcp.json"] \in DOMAIN cwd
          /\ cwd' = [name \in DOMAIN cwd \ {Literal["mcp.json"]} |-> cwd[name]]
    /\ script' = Between("edited")
    /\ UNCHANGED <<backup_dir, clock, last_backup, restOfBackup>>

\* The user removes a copy from the backup directory that the backup just
\* taken made.
RemoveBackupFile ==
    /\ script.op = "backup_config_files"
    /\ script.result = "returned"
    /\ \E i \in 1..Len(files_to_backup) :
           /\ files_to_backup[i] \in DOMAIN cwd
           /\ backup_dir' =
                  Directory([name \in DOMAIN backup_dir.files
                                      \ {BackupName(files_to_backup[i], script.timestamp)}
                                 |-> backup_dir.files[name]])
    /\ script' = Between("removed")
    /\ UNCHANGED <<cwd, clock, last_backup, restOfBackup>>

\* What a call of backup_config_files leaves in the state.
BackedUp(unreadable, done) ==
    /\ backup_dir' = done.dir
    /\ last_backup' = IF done.result = "returned" THEN strftime[clock] ELSE last_backup
    /\ script' = [ op |-> "backup_config_files", args |-> <<Calls + 1, unreadable>>,
                   result |-> done.result, timestamp |-> strftime[clock],
                   directory |-> cwd, dir |-> backup_dir, trace |-> <<>>,
                   chosen |-> <<>>, latest |-> last_backup ]
    /\ UNCHANGED <<cwd, clock, restOfBackup>>

CallBackupConfigFiles ==
    /\ Calls < MaxCalls
    /\ \E unreadable \in {{}, {Literal["mcp.json"]} \cap DOMAIN cwd} :
           BackedUp(unreadable,
                    backup_config_files(cwd, backup_dir, strftime[clock], unreadable))

\* What a call of a restore function leaves in the state.
RestoreCalled(op, args, done) ==
    /\ cwd' = done.directory
    /\ script' = [ op |-> op, args |-> <<Calls + 1>> \o args, result |-> done.result,
                   timestamp |-> strftime[clock], directory |-> cwd, dir |-> backup_dir,
                   trace |-> done.trace, chosen |-> done.chosen, latest |-> last_backup ]
    /\ UNCHANGED <<backup_dir, clock, last_backup, restOfBackup>>

CallRestoreFromBackup ==
    /\ Calls < MaxCalls
    /\ \E backup_index \in 0..Cardinality(Instants), confirm \in BOOLEAN :
           \E answer \in IF confirm THEN Answers ELSE {<<>>} :
           \E fault \in IF confirm /\ ~Confirmed(answer)
                        THEN {[kind |-> "none", name |-> <<>>]} ELSE FileFaults :
               RestoreCalled("restore_from_backup", <<backup_index, confirm, answer>>,
                   restore_from_backup(backup_index, confirm, answer, fault, cwd,
                                       backup_dir, strftime[clock]))

CallRestoreSpecificFile ==
    /\ Calls < MaxCalls
    /\ \E i \in 1..Len(files_to_backup), instant \in {0} \cup Instants,
          answer \in Answers :
           \E fault \in IF Confirmed(answer) THEN Faults ELSE {"none"} :
           RestoreCalled("restore_specific_file",
               <<files_to_backup[i], IF instant = 0 THEN <<>> ELSE strftime[instant],
                 answer>>,
               restore_specific_file(files_to_backup[i],
                   IF instant = 0 THEN <<>> ELSE strftime[instant],
                   answer, fault, cwd, backup_dir, strftime[clock]))

BackupNext ==
    \/ ClockStep
    \/ EditOriginal
    \/ RemoveBackupFile
    \/ CallBackupConfigFiles
    \/ CallRestoreFromBackup
    \/ CallRestoreSpecificFile

SpecBackup == BackupInit /\ [][BackupNext]_vars

\* a call that asks for the first backup of the list: restore_from_backup
\* with backup_index 1, restore_specific_file without a timestamp
AsksForFirst ==
    \/ script.op = "restore_from_backup" /\ script.args[2] = 1
    \/ script.op = "restore_specific_file" /\ script.args[3] = <<>>

\* C16: index 1 of restore_from_backup and the default choice of
\* restore_specific_file denote the most recently taken backup, whatever
\* calls of backup_config_files came before.
C16_FirstIsMostRecent ==
    (AsksForFirst /\ script.latest # <<>>) => script.chosen = script.latest

\* C16 does not hold here: the backup of 02:00:00 was taken, config.json was
\* rewritten, local time went back to 01:59:59 and a second backup was taken;
\* restore_from_backup(1) then restored the config.json of the first backup.
C16_OlderBackupChosen ==
    /\ script.op = "restore_from_backup"
    /\ script.args[2] = 1
    /\ script.result = "True"
    /\ script.latest = strftime[1]
    /\ script.chosen = strftime[2]
    /\ BackupName(Literal["config.json"], strftime[1]) \in DOMAIN backup_dir.files
    /\ backup_dir.files[BackupName(Literal["config.json"], strftime[1])]
           = Bytes(<<Ch.b, Ch.b>>)
    /\ cwd[Literal["config.json"]] = Bytes(<<Ch.a>>)

\* the files of files_to_backup that were in the working directory at the call
Existing == {i \in 1..Len(files_to_backup) : files_to_backup[i] \in DOMAIN script.directory}

\* the names the call writes in the backup directory
Written ==
    {BackupName(files_to_backup[i], script.timestamp) : i \in Existing}
    \cup {InfoName(script.timestamp)}

\* the files list of the info file of the call
InfoEntries ==
    Get(backup_dir.files[InfoName(script.timestamp)].val, "files", None).kids

\* C17: backup_config_files leaves the files of the working directory as
\* they are, and a call that returns has copied each of config.json and
\* mcp.json that exists to <name>.backup.<timestamp>, has written nothing for
\* one that does not exist, and has written backup_info.<timestamp>.json whose
\* files list names exactly the copied files, also when there are none.
C17_BackupCopiesExisting ==
    script.op = "backup_config_files" =>
        /\ cwd = script.directory
        /\ script.result = "returned" =>
              /\ backup_dir.exists
              /\ DOMAIN backup_dir.files = DOMAIN script.dir.files \cup Written
              /\ \A name \in DOMAIN script.dir.files \ Written :
                     backup_dir.files[name] = script.dir.files[name]
              /\ \A i \in Existing :
                     backup_dir.files[BackupName(files_to_backup[i], script.timestamp)]
                         = script.directory[files_to_backup[i]]
              /\ backup_dir.files[InfoName(script.timestamp)].kind = "json"
              /\ Len(InfoEntries) = Cardinality(Existing)
              /\ \A i \in Existing :
                     \E k \in 1..Len(InfoEntries) :
                         /\ Get(InfoEntries[k], "original", None)
                                = JsonStr(files_to_backup[i])
                         /\ Get(InfoEntries[k], "backup", None)
                                = JsonStr(BackupName(files_to_backup[i], script.timestamp))

\* C17 happens: config.json was copied, mcp.json does not exist and was
\* skipped, the info file names config.json alone.
C17_OneCopiedOneSkipped ==
    /\ script.op = "backup_config_files"
    /\ script.result = "returned"
    /\ DOMAIN cwd = {Literal["config.json"]}
    /\ backup_dir.files[BackupName(Literal["config.json"], script.timestamp)]
           = Bytes(<<Ch.b, Ch.b>>)
    /\ BackupName(Literal["mcp.json"], script.timestamp) \notin DOMAIN backup_dir.files
    /\ Len(InfoEntries) = 1

\* a call of one of the two restore functions
IsRestore == script.op \in {"restore_from_backup", "restore_specific_file"}

\* the saving copy of the call for a file of the working directory
SavedName(name) == BeforeRestoreName(name, script.timestamp)

\* C18: in a call of restore_from_backup or restore_specific_file, a copy of
\* a backup over a target that exists comes directly behind the copy of that
\* target to <name>.before_restore.<timestamp>, which then holds what the
\* target held; when the saving copy fails the target is not overwritten.
C18_SavedBeforeOverwritten ==
    IsRestore =>
        /\ \A k \in 1..Len(script.trace) :
               (script.trace[k].op = "restore"
                /\ script.trace[k].name \in DOMAIN script.directory)
                   => /\ k > 1
                      /\ script.trace[k - 1]
                             = Copy("save", script.trace[k].name,
                                    script.directory[script.trace[k].name])
                      /\ SavedName(script.trace[k].name) \in DOMAIN cwd
                      /\ cwd[SavedName(script.trace[k].name)]
                             = script.directory[script.trace[k].name]
        /\ \A k \in 1..Len(script.trace) :
               script.trace[k].op = "save failed"
                   => /\ \A n \in 1..Len(script.trace) :
                             script.trace[n].op = "restore"
                                 => script.trace[n].name # script.trace[k].name
                      /\ cwd[script.trace[k].name]
                             = script.directory[script.trace[k].name]
        /\ \A i \in 1..Len(files_to_backup) :
               files_to_backup[i] \in DOMAIN script.directory
                   => /\ files_to_backup[i] \in DOMAIN cwd
                      /\ \/ cwd[files_to_backup[i]] = script.directory[files_to_backup[i]]
                         \/ /\ SavedName(files_to_backup[i]) \in DOMAIN cwd
                            /\ cwd[SavedName(files_to_backup[i])]
                                   = script.directory[files_to_backup[i]]

\* C18 happens: config.json held bb, restore_specific_file saved it and then
\* copied the backup a over it.
C18_SavedThenRestored ==
    /\ script.op = "restore_specific_file"
    /\ script.result = "True"
    /\ script.trace = << Copy("save", Literal["config.json"], Bytes(<<Ch.b, Ch.b>>)),
                         Copy("restore", Literal["config.json"], Bytes(<<Ch.a>>)) >>
    /\ cwd[Literal["config.json"]] = Bytes(<<Ch.a>>)
    /\ cwd[SavedName(Literal["config.json"])] = Bytes(<<Ch.b, Ch.b>>)

\* the backups list_backups returned to the call
BackupsListed == list_backups(script.dir)

\* C19: restore_from_backup returns False and leaves every file of the
\* working directory as it is, and creates none, when there is no backup,
\* when backup_index is below 1 or above the number of backups, or when
\* confirm is set and the answer, stripped and lower-cased, is not y.
C19_RefusedRestoreChangesNothing ==
    (/\ script.op = "restore_from_backup"
     /\ \/ BackupsListed = <<>>
        \/ script.args[2] < 1
        \/ script.args[2] > Len(BackupsListed)
        \/ script.args[3] /\ lower(strip(script.args[4])) # Literal["y"])
        => /\ script.result = "False"
           /\ script.trace = <<>>
           /\ cwd = script.directory

\* C19 happens: restore_from_backup(0, confirm=False) with two backups and a
\* config.json that differs from both returned False and restored nothing.
C19_IndexZeroRefused ==
    /\ script.op = "restore_from_backup"
    /\ script.args[2] = 0
    /\ ~script.args[3]
    /\ Len(BackupsListed) = 2
    /\ script.result = "False"
    /\ Literal["config.json"] \in DOMAIN cwd
    /\ cwd = script.directory

\* the record of the backup of a timestamp, as the call found it
RecordOf(timestamp) == script.dir.files[InfoName(timestamp)].val

\* the backup of a timestamp lists the file
Lists(timestamp, filename) == EntriesOf(RecordOf(timestamp), filename) # <<>>

\* the call used the backup of the timestamp: it took no other, and a call
\* that returned True left the file as that backup holds it
UsedBackup(timestamp, filename) ==
    /\ script.chosen = timestamp
    /\ script.result = "True"
           => cwd[filename] = script.dir.files[BackupName(filename, timestamp)]

\* the call returned False and the working directory is as it was
NothingRestored == script.result = "False" /\ cwd = script.directory

\* C21: restore_specific_file without a timestamp looks only at the newest
\* backup, the one taken last: it restores the file from that backup when the
\* backup lists it and returns False without changing anything when it does
\* not, even if an older backup does; with a timestamp it uses the backup of
\* exactly that timestamp, or returns False when there is none.
C21_OnlyNewestOrExactTimestamp ==
    (script.op = "restore_specific_file" /\ script.latest # <<>>) =>
        IF script.args[3] = <<>>
        THEN IF Lists(script.latest, script.args[2])
             THEN UsedBackup(script.latest, script.args[2])
             ELSE NothingRestored
        ELSE IF InfoName(script.args[3]) \in DOMAIN script.dir.files
             THEN Lists(script.args[3], script.args[2])
                      => UsedBackup(script.args[3], script.args[2])
             ELSE NothingRestored

\* C21 does not hold here: the backup of 02:00:00 holds mcp.json, mcp.json was
\* removed, local time went back and the backup of 01:59:59, taken last, does
\* not list it; restore_specific_file("mcp.json") brought mcp.json back from
\* the older backup and returned True.
C21_RestoredFromOlderBackup ==
    /\ script.op = "restore_specific_file"
    /\ script.args[2] = Literal["mcp.json"]
    /\ script.args[3] = <<>>
    /\ script.latest = strftime[1]
    /\ ~Lists(script.latest, Literal["mcp.json"])
    /\ Literal["mcp.json"] \notin DOMAIN script.directory
    /\ script.result = "True"
    /\ script.chosen = strftime[2]
    /\ cwd[Literal["mcp.json"]] = Bytes(<<Ch.a>>)

\* a call of restore_from_backup that went on to restore: there are backups,
\* the index is one of them, and no confirmation was asked or it was given
WentOnToRestore ==
    /\ script.op = "restore_from_backup"
    /\ script.args[2] \in 1..Len(BackupsListed)
    /\ script.args[3] => lower(strip(script.args[4])) = Literal["y"]

\* the files list of the backup of the call
ListedFiles == Get(BackupsListed[script.args[2]], "files", None).kids

\* the copies of the trace for a file
CopiesOf(original) == SelectSeq(script.trace, LAMBDA copy : copy.name = original)

\* the file is in the working directory what it was before the call
Untouched(original) ==
    IF original \in DOMAIN script.directory
    THEN original \in DOMAIN cwd /\ cwd[original] = script.directory[original]
    ELSE original \notin DOMAIN cwd

\* C22: restore_from_backup handles each listed file on its own: a file whose
\* backup file is missing is skipped, every other listed file is attempted
\* whatever happened to the files before it, a file is either copied back or
\* left as it was, and the function returns True exactly when at least one
\* file was copied back.
C22_FilesRestoredIndependently ==
    WentOnToRestore =>
        /\ \A i \in 1..Len(ListedFiles) :
               IF Get(ListedFiles[i], "backup", None).s \in DOMAIN script.dir.files
               THEN /\ CopiesOf(Get(ListedFiles[i], "original", None).s) # <<>>
                    /\ IF \E k \in 1..Len(script.trace) :
                              script.trace[k]
                                  = Copy("restore", Get(ListedFiles[i], "original", None).s,
                                         script.dir.files[Get(ListedFiles[i], "backup",
                                                              None).s])
                       THEN cwd[Get(ListedFiles[i], "original", None).s]
                                = script.dir.files[Get(ListedFiles[i], "backup", None).s]
                       ELSE Untouched(Get(ListedFiles[i], "original", None).s)
               ELSE /\ CopiesOf(Get(ListedFiles[i], "original", None).s) = <<>>
                    /\ Untouched(Get(ListedFiles[i], "original", None).s)
        /\ script.result = "True"
               <=> \E k \in 1..Len(script.trace) : script.trace[k].op = "restore"
        /\ script.result \in {"True", "False"}

\* C22 happens: the saving copy of config.json raised, and mcp.json, the file
\* behind it, was saved and copied back; the call returned True.
C22_SecondRestoredAfterFailure ==
    /\ WentOnToRestore
    /\ script.result = "True"
    /\ Len(script.trace) = 3
    /\ script.trace[1].op = "save failed"
    /\ script.trace[1].name = Literal["config.json"]
    /\ script.trace[3].op = "restore"
    /\ script.trace[3].name = Literal["mcp.json"]
    /\ cwd[Literal["config.json"]] = script.directory[Literal["config.json"]]

(***************************************************************************)
(* Calls of the basic_operation tool                                       *)
(***************************************************************************)
BasicInit ==
    /\ HashInit
    /\ TextIdle
    /\ JsonIdle
    /\ FormatIdle
    /\ McpIdle
    /\ BackupIdle
    /\ BasicIdle

\* What a call leaves in the state.
BasicCalled(operation, a, b, done) ==
    /\ basic' = [ operation |-> operation, a |-> a, b |-> b,
                  failure |-> done.failure, response |-> done.response ]
    /\ UNCHANGED restOfBasic

CallBasicOperation ==
    \E operation \in Operations, a \in Operands, b \in Operands,
       response_format \in ResponseFormat :
        BasicCalled(operation, a, b, basic_operation(operation, a, b, response_format))

BasicNext == CallBasicOperation

SpecBasic == BasicInit /\ [][BasicNext]_vars

\* C20: basic_operation never returns a quotient for a zero divisor:
\* divide(a, 0) fails with DivisionByZero for every a, and the caller receives
\* an error string and no value.
C20_NoQuotientForZeroDivisor ==
    (basic.operation = "divide" /\ basic.b = 0) =>
        /\ basic.failure = "DivisionByZero"
        /\ basic.response.error
        /\ basic.response.prefix = "Error: "
        /\ basic.response.result = <<>>

\* C20 happens: the largest operand was divided by 0 and the error string
\* came back.
C20_DividedByZero ==
    /\ basic.operation = "divide"
    /\ basic.a = MaxOperand
    /\ basic.b = 0
    /\ basic.response = ErrorResponse("division by zero")

(***************************************************************************)
(* normalize_json on two texts of one value                                *)
(***************************************************************************)
JsonInit ==
    /\ HashInit
    /\ TextIdle
    /\ FormatIdle
    /\ McpIdle
    /\ BackupIdle
    /\ BasicIdle
    /\ json_pc = "called"
    /\ json_in \in {<<WriteJson(v, a), WriteJson(v, b)>> :
                        v \in JsonObjects, a \in Layouts, b \in Layouts}
    /\ json_out = <<>>
    /\ json_hash = <<>>

CallNormalizeJson ==
    /\ json_pc = "called"
    /\ json_pc' = "normalized"
    /\ json_out' = <<normalize_json(json_in[1]), normalize_json(json_in[2])>>
    /\ UNCHANGED <<json_in, json_hash, restOfJson>>

CallCalculateHash ==
    /\ json_pc = "normalized"
    /\ json_out[1].ok /\ json_out[2].ok
    /\ json_pc' = "hashed"
    /\ \E algorithm \in HashAlgorithm :
           json_hash' = <<algorithm, calculate_hash(json_out[1].val, algorithm),
                          calculate_hash(json_out[2].val, algorithm)>>
    /\ UNCHANGED <<json_in, json_out, restOfJson>>

JsonNext == CallNormalizeJson \/ CallCalculateHash

SpecJson == JsonInit /\ [][JsonNext]_vars

\* both texts were parsed and written back
BothNormalized == json_out[1].ok /\ json_out[2].ok

\* C9: two JSON texts of one value that differ in the order of the object
\* keys and in insignificant white space get identical bytes from
\* normalize_json, and so the same digest under every algorithm.
C9_JsonKeyOrderInvariant ==
    /\ json_pc \in {"normalized", "hashed"} =>
          BothNormalized /\ json_out[1].val = json_out[2].val
    /\ json_pc = "hashed" =>
          /\ json_hash[2].ok /\ json_hash[3].ok
          /\ json_hash[2].val = json_hash[3].val

\* C9 happens: {"a":null,"b":null} and the same object written with b first
\* and white space between the tokens were normalized to the same bytes and
\* hashed to the same sha256 digest.
C9_ReorderedHashedAlike ==
    /\ json_pc = "hashed"
    /\ json_in[1] = <<123, 34, 97, 34, 58, 110, 117, 108, 108, 44, 34, 98, 34, 58,
                      110, 117, 108, 108, 125>>
    /\ json_in[2] # json_in[1]
    /\ Len(json_in[2]) > Len(json_in[1])
    /\ json_in[2][5] = Ch.b
    /\ json_out[1].val = json_in[1]
    /\ json_out[2].val = json_in[1]
    /\ json_hash[1] = "sha256"
    /\ json_hash[2] = json_hash[3]

==========================================================================
